---------------------------- MODULE Spec2Model ----------------------------
(***************************************************************************)
(* Product matching and normalization engine of brite_shopping_api:        *)
(* app/models/product_model.py (normalizer, size parser, match key,        *)
(* upsert_manual_entry) and the manual flow of ProductResource.post in     *)
(* app/resources/product_resource.py, over the `products` collection.      *)
(*                                                                         *)
(* Text is a sequence of one-character strings, so that normalisation,     *)
(* the size regexes and the key payload are computed character by          *)
(* character.  Numbers with decimals (prices, parsed sizes) are integers   *)
(* counted in thousandths.  Python's None is TextNone for text fields and  *)
(* NumNone for numeric fields.                                             *)
(***************************************************************************)
EXTENDS Integers, Sequences, FiniteSets, TLC

VARIABLES
    products,   \* db.products: sequence of documents, _id = position
    pc,         \* per worker: position inside the request it is serving
    args,       \* per worker: arguments of the request it is serving
    existing,   \* per worker: local variable `existing` (a snapshot) or NoDoc
    hist,       \* completed requests with what they returned, in completion order
    started,    \* number of requests begun so far
    feed,       \* the requests clients may submit in this run
    queries,    \* the reads clients may submit in this run
    stores,     \* db.stores: set of store documents, one per place_id
    store_settings,     \* db.store_settings: the store ids with visible = False
    indexes,    \* db.products.index_information(): sequence of index descriptions
    _text_index_ready,  \* the module-level flag of product_model.py
    product_prices,     \* db.product_prices: set of price documents
    resp        \* what the last read, rejected request or function call returned

vars == <<products, pc, args, existing, hist, started, feed, queries,
          stores, store_settings, indexes, _text_index_ready, product_prices, resp>>

\* what an ingestion step leaves alone
readState == <<queries, stores, store_settings, indexes, _text_index_ready,
               product_prices, resp>>

-----------------------------------------------------------------------------
(* Values *)

TextNone == <<"None">>
NumNone == -1

DigitChars == <<"0", "1", "2", "3", "4", "5", "6", "7", "8", "9">>
LowerChars == <<"a", "b", "c", "d", "e", "f", "g", "h", "i", "j", "k", "l", "m",
                "n", "o", "p", "q", "r", "s", "t", "u", "v", "w", "x", "y", "z">>
UpperChars == <<"A", "B", "C", "D", "E", "F", "G", "H", "I", "J", "K", "L", "M",
                "N", "O", "P", "Q", "R", "S", "T", "U", "V", "W", "X", "Y", "Z">>

Range(s) == {s[i] : i \in DOMAIN s}
DigitSet == Range(DigitChars)
LowerSet == Range(LowerChars)
UpperSet == Range(UpperChars)
Whitespace == {" ", "\t", "\n"}
WordSet == DigitSet \cup LowerSet \cup UpperSet \cup {"_"}

IndexIn(seq, c) == CHOOSE i \in DOMAIN seq : seq[i] = c
DigitVal(c) == IndexIn(DigitChars, c) - 1

\* str.lower() on one character
LowerChar(c) == IF c \in UpperSet THEN LowerChars[IndexIn(UpperChars, c)] ELSE c
Lower(s) == [i \in 1..Len(s) |-> LowerChar(s[i])]

\* str.upper() on one character
UpperChar(c) == IF c \in LowerSet THEN UpperChars[IndexIn(LowerChars, c)] ELSE c
Upper(s) == [i \in 1..Len(s) |-> UpperChar(s[i])]

RECURSIVE LStrip(_)
LStrip(s) == IF s # <<>> /\ Head(s) \in Whitespace THEN LStrip(Tail(s)) ELSE s

RECURSIVE RStrip(_)
RStrip(s) ==
    IF s # <<>> /\ s[Len(s)] \in Whitespace THEN RStrip(SubSeq(s, 1, Len(s) - 1)) ELSE s

\* str.strip()
Strip(s) == RStrip(LStrip(s))

\* Python truthiness of an optional text / an optional number
TruthyText(t) == t # TextNone /\ t # <<>>
TruthyNum(n) == n # NumNone /\ n # 0

\* `x or ''` inside an f-string, for an optional text
TextOrEmpty(t) == IF TruthyText(t) THEN t ELSE <<>>

StartsWith(s, prefix) ==
    Len(s) >= Len(prefix) /\ SubSeq(s, 1, Len(prefix)) = prefix

-----------------------------------------------------------------------------
(* Normalizer *)

_clean_optional_text(value) ==
    IF value = TextNone THEN TextNone
    ELSE LET cleaned == Strip(value) IN IF cleaned = <<>> THEN TextNone ELSE cleaned

\* re.sub(r"\s+", " ", s): every maximal whitespace run becomes one space
RECURSIVE CollapseWhitespace(_)
CollapseWhitespace(s) ==
    IF s = <<>> THEN <<>>
    ELSE IF Head(s) \in Whitespace
         THEN <<" ">> \o CollapseWhitespace(LStrip(s))
         ELSE <<Head(s)>> \o CollapseWhitespace(Tail(s))

\* a variant that deletes the other characters instead of spacing them out
_normalize_name_Deleting(name) ==
    LET lowered == Lower(name)
        kept    == SelectSeq(lowered, LAMBDA c : c \in LowerSet \cup DigitSet \cup Whitespace)
    IN  Strip(CollapseWhitespace(kept))

_normalize_name(name) ==
    LET lowered == Lower(name)
        spaced  == [i \in 1..Len(lowered) |->
                       IF lowered[i] \in LowerSet \cup DigitSet \cup Whitespace
                       THEN lowered[i] ELSE " "]
    IN  Strip(CollapseWhitespace(spaced))

-----------------------------------------------------------------------------
(* Numbers inside text *)

RECURSIVE IntOf(_)
\* int("123") for a sequence of digits
IntOf(digits) ==
    IF digits = <<>> THEN 0
    ELSE 10 * IntOf(SubSeq(digits, 1, Len(digits) - 1)) + DigitVal(digits[Len(digits)])

RECURSIVE IntStr(_)
\* str(n) for an int n >= 0
IntStr(n) == IF n < 10 THEN <<DigitChars[n + 1]>> ELSE IntStr(n \div 10) \o <<DigitChars[(n % 10) + 1]>>

\* float("12.5") in thousandths, for a number text with at most three decimals
FloatOf(numtext) ==
    LET dots == {i \in DOMAIN numtext : numtext[i] = "."}
    IN  IF dots = {} THEN 1000 * IntOf(numtext)
        ELSE LET d    == CHOOSE i \in dots : TRUE
                 frac == SubSeq(numtext, d + 1, Len(numtext))
                 pad  == SubSeq(frac \o <<"0", "0", "0">>, 1, 3)
             IN  1000 * IntOf(SubSeq(numtext, 1, d - 1)) + IntOf(pad)

\* str(x) for a float x >= 0 held in thousandths: "330.0", "1.5", "0.125"
FloatStr(v) ==
    LET f == v % 1000
        fracDigits == IF f = 0 THEN <<"0">>
                      ELSE IF f % 100 = 0 THEN IntStr(f \div 100)
                      ELSE IF f % 10 = 0
                           THEN <<DigitChars[(f \div 100) + 1], DigitChars[((f \div 10) % 10) + 1]>>
                           ELSE <<DigitChars[(f \div 100) + 1], DigitChars[((f \div 10) % 10) + 1],
                                  DigitChars[(f % 10) + 1]>>
    IN  IntStr(v \div 1000) \o <<".">> \o fracDigits

-----------------------------------------------------------------------------
(* The size regexes.  A pattern is a sequence of lower-case characters; the *)
(* element "\\s*" stands for a greedy run of whitespace.  All three regexes *)
(* are compiled with re.IGNORECASE.                                         *)

WS == "\\s*"

_MEASURE_UNITS ==
    << <<"m","l">>, <<"l">>, <<"l","i","t","r","e">>, <<"l","i","t","e","r">>, <<"g">>,
       <<"k","g">>, <<"o","z">>, <<"f","l",WS,"o","z">>, <<"l","b">>, <<"l","b","s">>,
       <<"g","a","l">>, <<"g","a","l","l","o","n">>, <<"g","a","l","l","o","n","s">>,
       <<"p","t">>, <<"p","i","n","t">>, <<"p","i","n","t","s">>, <<"q","t">>,
       <<"q","u","a","r","t">>, <<"q","u","a","r","t","s">>, <<"c","l">>, <<"m","g">> >>

\* packs? | pk | ct | count  ("packs?" is greedy: packs is tried before pack)
_COUNT_UNITS ==
    << <<"p","a","c","k","s">>, <<"p","a","c","k">>, <<"p","k">>, <<"c","t">>,
       <<"c","o","u","n","t">> >>

\* the unit alternation of _SIZE_PATTERN, in the order the regex lists it
_SIZE_UNITS ==
    _MEASURE_UNITS \o
    << <<"p","k">>, <<"p","a","c","k">>, <<"p","a","c","k","s">>, <<"c","t">>,
       <<"c","o","u","n","t">> >>

RECURSIVE DigitsEnd(_, _)
\* \d+ from position i: the position after the longest run of digits
DigitsEnd(t, i) == IF i <= Len(t) /\ t[i] \in DigitSet THEN DigitsEnd(t, i + 1) ELSE i

RECURSIVE SpacesEnd(_, _)
\* \s* from position i
SpacesEnd(t, i) == IF i <= Len(t) /\ t[i] \in Whitespace THEN SpacesEnd(t, i + 1) ELSE i

\* \d+(?:\.\d+)? from position i: the position after the match, 0 when none
NumberEnd(t, i) ==
    LET j == DigitsEnd(t, i)
    IN  IF j = i THEN 0
        ELSE IF j <= Len(t) /\ t[j] = "." /\ DigitsEnd(t, j + 1) > j + 1
             THEN DigitsEnd(t, j + 1) ELSE j

RECURSIVE MatchPattern(_, _, _)
\* a literal pattern from position i: the position after the match, 0 when none
MatchPattern(t, i, pat) ==
    IF pat = <<>> THEN i
    ELSE IF Head(pat) = WS THEN MatchPattern(t, SpacesEnd(t, i), Tail(pat))
    ELSE IF i <= Len(t) /\ LowerChar(t[i]) = Head(pat) THEN MatchPattern(t, i + 1, Tail(pat))
    ELSE 0

IsWordAt(t, i) == i >= 1 /\ i <= Len(t) /\ t[i] \in WordSet
\* \b between positions i-1 and i
Boundary(t, i) == IsWordAt(t, i - 1) # IsWordAt(t, i)

\* first alternative of `units` matching at i (followed by \b when bounded):
\* its index in `units`, 0 when none
FirstUnit(t, i, units, bounded) ==
    LET ok == {k \in DOMAIN units :
                 LET e == MatchPattern(t, i, units[k])
                 IN  e # 0 /\ (bounded => Boundary(t, e))}
    IN  IF ok = {} THEN 0 ELSE CHOOSE k \in ok : \A m \in ok : k <= m

NoMatch == [found |-> FALSE]

\* _SIZE_PATTERN anchored at position i
SizeMatchAt(t, i) ==
    LET e == NumberEnd(t, i)
        s == SpacesEnd(t, e)
        k == FirstUnit(t, s, _SIZE_UNITS, FALSE)
    IN  IF e = 0 \/ k = 0 THEN NoMatch
        ELSE [found |-> TRUE,
              value |-> SubSeq(t, i, e - 1),
              unit  |-> SubSeq(t, s, MatchPattern(t, s, _SIZE_UNITS[k]) - 1)]

\* _MULTIPACK_PATTERN anchored at position i
MultipackMatchAt(t, i) ==
    LET c  == DigitsEnd(t, i)
        x  == SpacesEnd(t, c)
        v  == SpacesEnd(t, x + 1)
        e  == NumberEnd(t, v)
        s  == SpacesEnd(t, e)
        k  == FirstUnit(t, s, _MEASURE_UNITS, TRUE)
    IN  IF /\ Boundary(t, i)
           /\ c > i
           /\ x <= Len(t) /\ LowerChar(t[x]) = "x"
           /\ e # 0
           /\ k # 0
        THEN [found |-> TRUE,
              count |-> SubSeq(t, i, c - 1),
              value |-> SubSeq(t, v, e - 1),
              unit  |-> SubSeq(t, s, MatchPattern(t, s, _MEASURE_UNITS[k]) - 1)]
        ELSE NoMatch

PackOf == <<"p","a","c","k",WS,"o","f",WS>>

\* _PACK_COUNT_PATTERN anchored at position i: count_a or count_b
PackCountMatchAt(t, i) ==
    LET a  == MatchPattern(t, i, PackOf)
        ad == DigitsEnd(t, a)
        b  == DigitsEnd(t, i)
        bs == SpacesEnd(t, b)
    IN  IF ~Boundary(t, i) THEN NoMatch
        ELSE IF a # 0 /\ ad > a /\ Boundary(t, ad)
             THEN [found |-> TRUE, count |-> SubSeq(t, a, ad - 1)]
        ELSE IF b > i /\ FirstUnit(t, bs, _COUNT_UNITS, TRUE) # 0
             THEN [found |-> TRUE, count |-> SubSeq(t, i, b - 1)]
        ELSE NoMatch

\* pattern.search(text) takes the match at the leftmost position that has one
Leftmost(hits) == IF hits = {} THEN 0 ELSE CHOOSE i \in hits : \A j \in hits : i <= j

\* _SIZE_PATTERN.search(text)
SizeSearch(t) ==
    LET i == Leftmost({k \in 1..Len(t) : SizeMatchAt(t, k).found})
    IN  IF i = 0 THEN NoMatch ELSE SizeMatchAt(t, i)

\* _MULTIPACK_PATTERN.search(text)
MultipackSearch(t) ==
    LET i == Leftmost({k \in 1..Len(t) : MultipackMatchAt(t, k).found})
    IN  IF i = 0 THEN NoMatch ELSE MultipackMatchAt(t, i)

\* _PACK_COUNT_PATTERN.search(text)
PackCountSearch(t) ==
    LET i == Leftmost({k \in 1..Len(t) : PackCountMatchAt(t, k).found})
    IN  IF i = 0 THEN NoMatch ELSE PackCountMatchAt(t, i)

_normalize_unit(unit) ==
    LET compact == SelectSeq(Lower(unit), LAMBDA c : c # " ")
    IN  CASE compact = <<"l","i","t","r","e">> -> <<"l">>
          [] compact = <<"l","i","t","e","r">> -> <<"l">>
          [] compact = <<"f","l","o","z">> -> <<"o","z">>
          [] compact = <<"l","b","s">> -> <<"l","b">>
          [] compact = <<"p","a","c","k","s">> -> <<"p","a","c","k">>
          [] compact = <<"p","k">> -> <<"p","a","c","k">>
          [] compact = <<"c","o","u","n","t">> -> <<"c","t">>
          [] compact = <<"g","a","l","l","o","n">> -> <<"g","a","l">>
          [] compact = <<"g","a","l","l","o","n","s">> -> <<"g","a","l">>
          [] compact = <<"p","i","n","t">> -> <<"p","t">>
          [] compact = <<"p","i","n","t","s">> -> <<"p","t">>
          [] compact = <<"q","u","a","r","t">> -> <<"q","t">>
          [] compact = <<"q","u","a","r","t","s">> -> <<"q","t">>
          [] OTHER -> compact

NoSize == [value |-> NumNone, unit |-> TextNone, pack_count |-> NumNone]

_parse_size(text) ==
    IF ~TruthyText(text) THEN NoSize
    ELSE LET multipack_match == MultipackSearch(text)
             pack_match == PackCountSearch(text)
             pack_count == IF pack_match.found THEN IntOf(pack_match.count) ELSE NumNone
             match == SizeSearch(text)
         IN  IF multipack_match.found
             THEN [value |-> FloatOf(multipack_match.value),
                   unit |-> _normalize_unit(multipack_match.unit),
                   pack_count |-> IntOf(multipack_match.count)]
             ELSE IF ~match.found
                  THEN [value |-> NumNone, unit |-> TextNone, pack_count |-> pack_count]
                  ELSE [value |-> FloatOf(match.value),
                        unit |-> _normalize_unit(match.unit),
                        pack_count |-> pack_count]

-----------------------------------------------------------------------------
(* Match-key builder.  SHA-256 is taken to be injective: a key is its       *)
(* payload, the pipe-joined text that is hashed.                            *)

FloatOrEmpty(v) == IF TruthyNum(v) THEN FloatStr(v) ELSE <<>>
IntOrEmpty(n) == IF TruthyNum(n) THEN IntStr(n) ELSE <<>>

SizePayload(size) ==
    FloatOrEmpty(size.value) \o <<"|">> \o TextOrEmpty(size.unit) \o <<"|">>
        \o IntOrEmpty(size.pack_count)

_build_match_key(normalized_name, brand, size) ==
    normalized_name \o <<"|">> \o TextOrEmpty(brand) \o <<"|">> \o SizePayload(size)

_build_checksum(store_id, normalized_name, brand, size) ==
    store_id \o <<"|">> \o normalized_name \o <<"|">> \o TextOrEmpty(brand) \o <<"|">>
        \o SizePayload(size)

-----------------------------------------------------------------------------
(* The products collection *)

NoDoc == [_id |-> 0]
\* `if existing:` / `if existing is None`
Found(doc) == doc._id # 0

\* db.products.find_one(query), given the _ids of the documents that satisfy
\* the query: the first of them in insertion order; NoDoc (None) when none
find_one(coll, hits) ==
    IF hits = {} THEN NoDoc ELSE coll[CHOOSE i \in hits : \A j \in hits : i <= j]

\* a variant with a unique index on match_key: a duplicate is not inserted
insert_one_unique(coll, payload) ==
    IF \E i \in DOMAIN coll : coll[i].match_key = payload.match_key
    THEN coll ELSE Append(coll, ("_id" :> Len(coll) + 1) @@ payload)

\* db.products.insert_one(payload): the collection with the document appended
\* under a fresh _id.  No unique index exists on any field.
insert_one(coll, payload) == Append(coll, ("_id" :> Len(coll) + 1) @@ payload)

\* a variant that keeps, in an array it replaces, the stored entries of the
\* stores the new array does not mention
update_one_KeepingOthers(coll, id, updates) ==
    IF id \notin DOMAIN coll THEN coll
    ELSE IF "location_prices" \notin DOMAIN updates THEN [coll EXCEPT ![id] = updates @@ @]
    ELSE LET kept == SelectSeq(coll[id].location_prices,
                               LAMBDA e : \A i \in DOMAIN updates.location_prices :
                                             updates.location_prices[i].location_id
                                                 # e.location_id)
         IN  [coll EXCEPT ![id] =
                 [updates EXCEPT !.location_prices = @ \o kept] @@ @]

\* db.products.update_one({"_id": id}, {"$set": updates})
update_one(coll, id, updates) ==
    IF id \in DOMAIN coll THEN [coll EXCEPT ![id] = updates @@ @] ELSE coll

\* an update document {field: value} when cond holds, {} otherwise
SetIf(cond, field, value) == IF cond THEN field :> value ELSE <<>>

-----------------------------------------------------------------------------
(* upsert_manual_entry: what it computes from its arguments *)

Placeholder == <<"m","a","n","u","a","l",":","/","/">>

\* _clean_optional_text(url) or f"manual://{store_id}"
normalized_url(a) ==
    LET cleaned == _clean_optional_text(a.url)
    IN  IF TruthyText(cleaned) THEN cleaned ELSE Placeholder \o a.store_id

\* _clean_optional_text(store_name) or store_id
normalized_store_name(a) ==
    LET cleaned == _clean_optional_text(a.store_name)
    IN  IF TruthyText(cleaned) THEN cleaned ELSE a.store_id

JMD == <<"J","M","D">>

\* (currency or "JMD").strip().upper()
normalized_currency(a) == Upper(Strip(IF TruthyText(a.currency) THEN a.currency ELSE JMD))

parsed_size(a) == _parse_size(IF TruthyText(a.size_hint) THEN a.size_hint ELSE a.name)

match_key(a) ==
    _build_match_key(_normalize_name(a.name), _clean_optional_text(a.brand), parsed_size(a))

checksum(a) ==
    _build_checksum(a.store_id, _normalize_name(a.name), _clean_optional_text(a.brand),
                    parsed_size(a))

\* the PriceObservation built from the arguments (amount = float(price))
location_price(a) ==
    [location_id |-> a.store_id,
     store_name |-> normalized_store_name(a),
     amount |-> a.price,
     currency |-> normalized_currency(a),
     last_seen_at |-> a.now]

\* {"match_key": match_key}
MatchKeyQuery(a, doc) == doc.match_key = match_key(a)

\* a variant whose brand condition admits the supplied brand only
FallbackQuery_BrandExact(a, doc) ==
    LET normalized_brand == _clean_optional_text(a.brand)
    IN  /\ doc.normalized_name = _normalize_name(a.name)
        /\ TruthyText(normalized_brand) => doc.brand = normalized_brand

\* {"normalized_name": ..., "brand": {"$in": [normalized_brand, None, ""]}},
\* the brand condition only when a brand was supplied
FallbackQuery(a, doc) ==
    LET normalized_brand == _clean_optional_text(a.brand)
    IN  /\ doc.normalized_name = _normalize_name(a.name)
        /\ TruthyText(normalized_brand) => doc.brand \in {normalized_brand, TextNone, <<>>}

\* a variant that appends without looking for the store's entry
MergeLocationPrices_AlwaysAppend(location_prices, lp) == Append(location_prices, lp)

\* a variant that keeps the store's entry when there is one
MergeLocationPrices_KeepOld(location_prices, lp) ==
    IF \E i \in DOMAIN location_prices : location_prices[i].location_id = lp.location_id
    THEN location_prices ELSE Append(location_prices, lp)

\* the for/else over location_prices: replace the first entry of the store,
\* else append
MergeLocationPrices(location_prices, lp) ==
    LET same == {i \in DOMAIN location_prices : location_prices[i].location_id = lp.location_id}
    IN  IF same = {} THEN Append(location_prices, lp)
        ELSE [location_prices EXCEPT ![CHOOSE i \in same : \A j \in same : i <= j] = lp]

RECURSIVE SumAmounts(_)
SumAmounts(location_prices) ==
    IF location_prices = <<>> THEN 0
    ELSE Head(location_prices).amount + SumAmounts(Tail(location_prices))

\* round(num / den, 2) of exact quotients, in thousandths; Python rounds a tie
\* to the even cent
RoundCents(num, den) ==
    LET q == num \div (10 * den)
        r == num % (10 * den)
    IN  10 * (IF 2 * r < 10 * den THEN q
              ELSE IF 2 * r > 10 * den THEN q + 1
              ELSE IF q % 2 = 0 THEN q ELSE q + 1)

\* round(sum(amounts) / len(amounts), 2) if amounts else None
MeanPrice(location_prices) ==
    IF location_prices = <<>> THEN NumNone
    ELSE RoundCents(SumAmounts(location_prices), Len(location_prices))

InSeq(x, seq) == \E i \in DOMAIN seq : seq[i] = x

\* location_prices, estimated_price and updated_at of the merge path
PriceUpdates(a, old) ==
    LET location_prices == MergeLocationPrices(old.location_prices, location_price(a))
    IN  [location_prices |-> location_prices,
         estimated_price |-> MeanPrice(location_prices),
         updated_at |-> a.now]

\* brand, category and image_url are backfilled when the snapshot has none
BackfillUpdates(a, old) ==
    LET normalized_brand == _clean_optional_text(a.brand)
        normalized_category == _clean_optional_text(a.category)
        normalized_image_url == _clean_optional_text(a.image_url)
    IN  SetIf(TruthyText(normalized_brand) /\ ~TruthyText(old.brand),
              "brand", normalized_brand)
        @@ SetIf(TruthyText(normalized_category) /\ ~TruthyText(old.category),
                 "category", normalized_category)
        @@ SetIf(TruthyText(normalized_image_url) /\ ~TruthyText(old.image_url),
                 "image_url", normalized_image_url)

\* url is written when the snapshot has none or holds a manual:// placeholder
UrlUpdate(a, old) ==
    SetIf(TruthyText(normalized_url(a))
             /\ (~TruthyText(old.url) \/ StartsWith(old.url, Placeholder)),
          "url", normalized_url(a))

\* a variant that always recomputes the key of the merged product
KeyUpdates_AlwaysOverwrite(a, old) ==
    [checksum |-> checksum(a), match_key |-> match_key(a)]

\* checksum and match_key are backfilled when the snapshot has none
KeyUpdates(a, old) ==
    SetIf(~TruthyText(old.checksum), "checksum", checksum(a))
    @@ SetIf(~TruthyText(old.match_key), "match_key", match_key(a))

\* a variant that folds the category into tags only when the merge sets it
TagsUpdate_OnlyWhenCategorySet(a, old) ==
    LET normalized_category == _clean_optional_text(a.category)
        category_tag == Lower(normalized_category)
    IN  SetIf(TruthyText(normalized_category) /\ ~TruthyText(old.category)
                  /\ ~InSeq(category_tag, old.tags),
              "tags", Append(old.tags, category_tag))

\* the lowercased category is appended to tags when it is not among them
TagsUpdate(a, old) ==
    LET normalized_category == _clean_optional_text(a.category)
        category_tag == Lower(normalized_category)
    IN  SetIf(TruthyText(normalized_category) /\ ~InSeq(category_tag, old.tags),
              "tags", Append(old.tags, category_tag))

\* the `updates` document of the merge path, from the snapshot `old`
MergeUpdates(a, old) ==
    TagsUpdate(a, old) @@ KeyUpdates(a, old) @@ UrlUpdate(a, old)
        @@ BackfillUpdates(a, old) @@ PriceUpdates(a, old)

\* the `payload` document of the create path
CreatePayload(a) ==
    LET normalized_category == _clean_optional_text(a.category)
    IN  [store_id |-> a.store_id,
         store_name |-> normalized_store_name(a),
         location_prices |-> <<location_price(a)>>,
         estimated_price |-> a.price,
         name |-> Strip(a.name),
         normalized_name |-> _normalize_name(a.name),
         brand |-> _clean_optional_text(a.brand),
         size |-> parsed_size(a),
         category |-> normalized_category,
         tags |-> IF TruthyText(normalized_category) THEN <<Lower(normalized_category)>> ELSE <<>>,
         aliases |-> <<>>,
         url |-> normalized_url(a),
         image_url |-> _clean_optional_text(a.image_url),
         embedding |-> TextNone,
         created_at |-> a.now,
         updated_at |-> a.now,
         checksum |-> checksum(a),
         match_key |-> match_key(a)]

-----------------------------------------------------------------------------
(* ProductResource.post, manual flow *)

\* model_fields.get("store_id") and model_fields.get("price")
StorePath(a) == TruthyText(a.store_id) /\ TruthyNum(a.price)

\* normalized = name.strip().lower()
PostNormalized(a) == Lower(Strip(a.name))

PostQuery(a, doc) == doc.normalized_name = PostNormalized(a)

\* a variant that overwrites the brand whenever one is supplied
PostUpdates_OverwriteBrand(a, old) ==
    SetIf(TruthyText(a.image_url) /\ ~TruthyText(old.image_url), "image_url", a.image_url)
    @@ SetIf(TruthyText(a.category) /\ ~TruthyText(old.category), "category", a.category)
    @@ SetIf(TruthyText(a.brand), "brand", a.brand)
    @@ [updated_at |-> a.now]

\* updates of the "Product already exists" branch
PostUpdates(a, old) ==
    SetIf(TruthyText(a.image_url) /\ ~TruthyText(old.image_url), "image_url", a.image_url)
    @@ SetIf(TruthyText(a.category) /\ ~TruthyText(old.category), "category", a.category)
    @@ SetIf(TruthyText(a.brand) /\ ~TruthyText(old.brand), "brand", a.brand)
    @@ [updated_at |-> a.now]

\* "size": None
SizeAbsent == [absent |-> TRUE]

\* product_doc; a field the document does not carry reads as None
PostDoc(a) ==
    [name |-> a.name,
     normalized_name |-> PostNormalized(a),
     brand |-> a.brand,
     category |-> a.category,
     size |-> SizeAbsent,
     tags |-> IF TruthyText(a.category) THEN <<Lower(a.category)>> ELSE <<>>,
     aliases |-> <<>>,
     location_prices |-> <<>>,
     estimated_price |-> NumNone,
     image_url |-> a.image_url,
     url |-> a.url,
     embedding |-> TextNone,
     created_at |-> a.now,
     updated_at |-> a.now,
     store_id |-> TextNone,
     store_name |-> TextNone,
     checksum |-> TextNone,
     match_key |-> TextNone]

-----------------------------------------------------------------------------
(* Requests.  Two workers serve requests; each database call of a request  *)
(* is one step, so that the calls of two requests can interleave.          *)

Workers == {"w1", "w2"}

MaxCalls == 3

Tea == <<"t","e","a">>
TeaBang == <<"T","e","a","!">>
StoreA == <<"a">>
StoreB == <<"b">>
BrandX == <<"X">>
BrandY == <<"Y">>
Dairy == <<"D","a","i","r","y">>
Snacks == <<"S","n","a","c","k","s">>
RealUrl == <<"h","t","t","p",":","/","/","u">>
Image == <<"i",".","p","n","g">>
PackOfZero == <<"p","a","c","k"," ","o","f"," ","0">>
SixPack == <<"6","x","3","3","0","m","l">>

\* model_fields of a payload with a store and a price: the keyword arguments
\* of upsert_manual_entry
Obs(name, store_id, price, brand, category, url, image_url, size_hint) ==
    [name |-> name, store_id |-> store_id, store_name |-> TextNone, price |-> price,
     currency |-> JMD, brand |-> brand, category |-> category, url |-> url,
     image_url |-> image_url, size_hint |-> size_hint]

\* model_fields of a payload without a store
Bare(name, brand, category, url, image_url) ==
    Obs(name, TextNone, NumNone, brand, category, url, image_url, TextNone)

\* prices in thousandths: 100.0, 200.0 and 10.125
PriceFeed ==
    {Obs(Tea, s, p, TextNone, TextNone, TextNone, TextNone, TextNone) :
        s \in {StoreA, StoreB}, p \in {100000, 200000, 10125}}

BrandFeed ==
    {Obs(Tea, StoreA, 100000, b, TextNone, TextNone, TextNone, TextNone) :
        b \in {TextNone, BrandX, BrandY}}
    \cup {Bare(Tea, b, TextNone, TextNone, TextNone) : b \in {TextNone, BrandX, BrandY}}

CategoryFeed ==
    {Obs(Tea, StoreA, 100000, TextNone, c, TextNone, TextNone, TextNone) :
        c \in {TextNone, Dairy, Snacks}}
    \cup {Bare(Tea, TextNone, c, TextNone, TextNone) : c \in {TextNone, Dairy, Snacks}}

UrlFeed ==
    {Obs(Tea, s, 100000, TextNone, TextNone, u, i, TextNone) :
        s \in {StoreA, StoreB}, u \in {TextNone, RealUrl}, i \in {TextNone, Image}}
    \cup {Bare(Tea, TextNone, TextNone, u, TextNone) : u \in {TextNone, RealUrl}}

NameFeed ==
    {Obs(n, StoreA, 100000, TextNone, TextNone, TextNone, TextNone, h) :
        n \in {Tea, TeaBang}, h \in {TextNone, PackOfZero, SixPack}}
    \cup {Bare(n, TextNone, TextNone, TextNone, TextNone) : n \in {Tea, TeaBang}}

\* the requests of one run are drawn from one of these sets
Feeds == {PriceFeed, BrandFeed, CategoryFeed, UrlFeed, NameFeed}

-----------------------------------------------------------------------------
(* State machine *)

NoArgs == [name |-> TextNone]

\* no response yet
NoResp == [op |-> "none"]

Init ==
    /\ products = <<>>
    /\ pc = [w \in Workers |-> "idle"]
    /\ args = [w \in Workers |-> NoArgs]
    /\ existing = [w \in Workers |-> NoDoc]
    /\ hist = <<>>
    /\ started = 0
    /\ feed \in Feeds
    /\ queries = {}
    /\ product_prices = {}
    /\ stores = {}
    /\ store_settings = {}
    /\ indexes = <<>>
    /\ _text_index_ready = FALSE
    /\ resp = NoResp

AllIdle == \A w \in Workers : pc[w] = "idle"

\* a worker takes a request and enters the handler; now = datetime.now(),
\* counted in requests entered
Call(w, store_path, first) ==
    /\ pc[w] = "idle"
    /\ started < MaxCalls
    /\ started' = started + 1
    /\ \E a \in feed :
          /\ StorePath(a) = store_path
          /\ args' = [args EXCEPT ![w] = [now |-> started'] @@ a]
    /\ pc' = [pc EXCEPT ![w] = first]
    /\ UNCHANGED <<products, existing, hist, feed>>
    /\ UNCHANGED readState

\* the request returns (product_id, created); `stale` records whether what the
\* request read was no longer what the collection held when it wrote
Return(w, id, created, stale) ==
    /\ hist' = Append(hist, [args |-> args[w], id |-> id, created |-> created,
                             stale |-> stale])
    /\ pc' = [pc EXCEPT ![w] = "idle"]
    /\ args' = [args EXCEPT ![w] = NoArgs]
    /\ existing' = [existing EXCEPT ![w] = NoDoc]
    /\ UNCHANGED <<started, feed>>
    /\ UNCHANGED readState

\* upsert_manual_entry is entered
UpsertCall(w) == Call(w, TRUE, "find_match_key")

\* existing = db.products.find_one({"match_key": match_key})
LookupMatchKey(w) ==
    /\ pc[w] = "find_match_key"
    /\ LET found == find_one(products, {i \in DOMAIN products :
                                           MatchKeyQuery(args[w], products[i])})
       IN  /\ existing' = [existing EXCEPT ![w] = found]
           /\ pc' = [pc EXCEPT ![w] = IF Found(found) THEN "write" ELSE "find_fallback"]
    /\ UNCHANGED <<products, args, hist, started, feed>>
    /\ UNCHANGED readState

\* existing = db.products.find_one(fallback_query)
LookupFallback(w) ==
    /\ pc[w] = "find_fallback"
    /\ existing' = [existing EXCEPT ![w] =
                       find_one(products, {i \in DOMAIN products :
                                              FallbackQuery(args[w], products[i])})]
    /\ pc' = [pc EXCEPT ![w] = "write"]
    /\ UNCHANGED <<products, args, hist, started, feed>>
    /\ UNCHANGED readState

\* the merge path: update_one on the snapshot's _id, return (existing._id, False)
Merge(w) ==
    /\ pc[w] = "write"
    /\ Found(existing[w])
    /\ products' = update_one(products, existing[w]._id, MergeUpdates(args[w], existing[w]))
    /\ Return(w, existing[w]._id, FALSE, existing[w] # products[existing[w]._id])

\* the create path: insert_one, return (inserted_id, True)
Create(w) ==
    /\ pc[w] = "write"
    /\ ~Found(existing[w])
    /\ products' = insert_one(products, CreatePayload(args[w]))
    /\ Return(w, Len(products'), TRUE,
              \E doc \in Range(products) :
                  MatchKeyQuery(args[w], doc) \/ FallbackQuery(args[w], doc))

\* the product-only branch of ProductResource.post is entered
PostCall(w) == Call(w, FALSE, "post_find")

\* existing = db.products.find_one({"normalized_name": normalized})
PostLookup(w) ==
    /\ pc[w] = "post_find"
    /\ existing' = [existing EXCEPT ![w] =
                       find_one(products, {i \in DOMAIN products :
                                              PostQuery(args[w], products[i])})]
    /\ pc' = [pc EXCEPT ![w] = "post_write"]
    /\ UNCHANGED <<products, args, hist, started, feed>>
    /\ UNCHANGED readState

\* "Product already exists": backfill brand/category/image_url, 200
PostMerge(w) ==
    /\ pc[w] = "post_write"
    /\ Found(existing[w])
    /\ products' = update_one(products, existing[w]._id, PostUpdates(args[w], existing[w]))
    /\ Return(w, existing[w]._id, FALSE, existing[w] # products[existing[w]._id])

\* "Product created": insert product_doc, 201
PostCreate(w) ==
    /\ pc[w] = "post_write"
    /\ ~Found(existing[w])
    /\ products' = insert_one(products, PostDoc(args[w]))
    /\ Return(w, Len(products'), TRUE, \E doc \in Range(products) : PostQuery(args[w], doc))

Step(w) ==
    \/ LookupMatchKey(w)
    \/ LookupFallback(w)
    \/ Merge(w)
    \/ Create(w)
    \/ PostLookup(w)
    \/ PostMerge(w)
    \/ PostCreate(w)

\* requests are served one at a time
Next ==
    \E w \in Workers :
        \/ AllIdle /\ UpsertCall(w)
        \/ AllIdle /\ PostCall(w)
        \/ Step(w)

Spec == Init /\ [][Next]_vars

\* requests are served concurrently by the two workers
ConcNext ==
    \E w \in Workers :
        \/ UpsertCall(w)
        \/ PostCall(w)
        \/ Step(w)

ConcFeeds == {PriceFeed, BrandFeed}

ConcInit == Init /\ feed \in ConcFeeds

ConcSpec == ConcInit /\ [][ConcNext]_vars

-----------------------------------------------------------------------------
(* ProductResource.put: db.products.update_one({"_id": id}, {"$set": data}) *)
(* with the JSON body as the update document.                               *)

\* request bodies of PUT /products/<id>
PutBodies == {[brand |-> BrandX], [category |-> Dairy], [name |-> TeaBang]}

\* PUT /products/<product_id>: 404 when nothing matched, 200 otherwise.  The
\* request is counted on the same clock as the other requests.
Put ==
    /\ AllIdle
    /\ started < MaxCalls
    /\ started' = started + 1
    /\ \E product_id \in 1..(Len(products) + 1), data \in PutBodies :
          /\ products' = update_one(products, product_id, data)
          /\ resp' = [op |-> "put", product_id |-> product_id, data |-> data,
                      now |-> started',
                      status |-> IF product_id \in DOMAIN products THEN 200 ELSE 404]
    /\ UNCHANGED <<pc, args, existing, hist, feed>>
    /\ UNCHANGED <<queries, product_prices, stores, store_settings, indexes, _text_index_ready>>

PutNext == Next \/ Put

PutSpec == Init /\ [][PutNext]_vars

-----------------------------------------------------------------------------
(* ProductResource.post, manual flow, from the JSON body.  A field of the   *)
(* body is a text, TextNone for a JSON null, or Absent when the key is not  *)
(* there; a JSON number is held as its decimal text.                        *)

Absent == <<"Absent">>

\* str(data.get(key, default))
StrOf(v, default) ==
    IF v = Absent THEN default
    ELSE IF v = TextNone THEN <<"N", "o", "n", "e">>
    ELSE v

\* str(data.get(key, "")).strip() or None
StrippedOrNone(v) ==
    LET stripped == Strip(StrOf(v, <<>>))
    IN  IF stripped = <<>> THEN TextNone ELSE stripped

\* whether float() accepts the text: an optional sign, digits, at most one point
IsDecimalText(t) ==
    LET body == IF t # <<>> /\ Head(t) = "-" THEN Tail(t) ELSE t
    IN  /\ \E i \in DOMAIN body : body[i] \in DigitSet
        /\ \A i \in DOMAIN body : body[i] \in DigitSet \cup {"."}
        /\ Cardinality({i \in DOMAIN body : body[i] = "."}) <= 1

\* float(raw_price): TypeError for None, ValueError for a text that is no
\* number, else the value in thousandths
ToFloat(raw) ==
    IF raw \in {Absent, TextNone} \/ ~IsDecimalText(Strip(raw)) THEN [ok |-> FALSE, value |-> NumNone]
    ELSE LET t == Strip(raw)
         IN  [ok |-> TRUE,
              value |-> IF Head(t) = "-" THEN 0 - FloatOf(Tail(t)) ELSE FloatOf(t)]

NoError == <<>>
NameTooShort == "Product name must be at least 2 characters"
PriceRequired == "price is required when store is provided"
PriceNotPositive == "price must be greater than 0"
CurrencyNot3 == "currency must be a 3-letter code"

\* a variant that lets a price of zero or less through
StorePriceError_AcceptsNonPositive(raw_price, currency) ==
    IF ~ToFloat(raw_price).ok THEN <<PriceRequired>>
    ELSE IF Len(currency) # 3 THEN <<CurrencyNot3>>
    ELSE NoError

\* the checks made when a store_id is given
StorePriceError(raw_price, currency) ==
    IF ~ToFloat(raw_price).ok THEN <<PriceRequired>>
    ELSE IF ToFloat(raw_price).value <= 0 THEN <<PriceNotPositive>>
    ELSE IF Len(currency) # 3 THEN <<CurrencyNot3>>
    ELSE NoError

\* (payload, error): error is NoError when the body is accepted
_validate_manual_payload(data) ==
    LET name == Strip(StrOf(data.name, <<>>))
        lowered_store == Lower(Strip(StrOf(data.store_id, <<>>)))
        store_id == IF lowered_store = <<>> THEN TextNone ELSE lowered_store
        given_store_name == Strip(StrOf(data.store_name, <<>>))
        store_name == IF given_store_name = <<>> THEN store_id ELSE given_store_name
        given_currency == Upper(Strip(StrOf(data.currency, JMD)))
        currency == IF given_currency = <<>> THEN JMD ELSE given_currency
        price == IF TruthyText(store_id) \/ data.price \notin {Absent, TextNone}
                 THEN ToFloat(data.price).value ELSE NumNone
        error == IF Len(name) < 2 THEN <<NameTooShort>>
                 ELSE IF TruthyText(store_id) THEN StorePriceError(data.price, currency)
                 ELSE NoError
    IN  [error |-> error,
         payload |-> [name |-> name,
                      store_id |-> store_id,
                      store_name |-> store_name,
                      price |-> price,
                      currency |-> currency,
                      brand |-> StrippedOrNone(data.brand),
                      category |-> StrippedOrNone(data.category),
                      size_hint |-> StrippedOrNone(data.size_hint),
                      image_url |-> StrippedOrNone(data.image_url),
                      url |-> StrippedOrNone(data.url),
                      place_id |-> StrippedOrNone(data.place_id),
                      address |-> StrippedOrNone(data.address)]]

\* model_fields: the payload without the place fields
ModelFields(payload) ==
    [k \in DOMAIN payload \ {"place_id", "address"} |-> payload[k]]

\* db.stores.update_one({"place_id": ...}, {"$set": {...}}, upsert=True)
UpsertStore(coll, payload) ==
    {s \in coll : s.place_id # payload.place_id}
        \cup {[place_id |-> payload.place_id, store_name |-> payload.store_name,
               address |-> payload.address]}

\* a JSON body of the manual flow
Body(name, store_id, price, currency, place_id) ==
    [name |-> name, store_id |-> store_id, store_name |-> Absent, price |-> price,
     currency |-> currency, brand |-> Absent, category |-> Absent, size_hint |-> Absent,
     image_url |-> Absent, url |-> Absent, place_id |-> place_id, address |-> Absent]

Hundred == <<"1", "0", "0">>
PlaceP == <<"p">>

BodyNameFeed ==
    {Body(n, s, Hundred, Absent, Absent) :
        n \in {Absent, TextNone, <<>>, <<"T">>, <<" ", "T", " ">>, <<" ", "T", "e", "a", " ">>},
        s \in {Absent, <<" ", "A", " ">>}}

BodyPriceFeed ==
    {Body(Tea, s, p, c, Absent) :
        s \in {Absent, <<"A">>},
        p \in {Absent, TextNone, <<"a", "b", "c">>, <<"0">>, <<"-", "5">>, Hundred},
        c \in {Absent, <<>>, <<"j", "m", "d">>, <<"A", "B", "C", "D">>}}

BodyPlaceFeed ==
    {Body(n, s, p, Absent, q) :
        n \in {Tea, <<"T">>}, s \in {Absent, <<"A">>}, p \in {<<"0">>, Hundred},
        q \in {Absent, PlaceP}}

BodyFeeds == {BodyNameFeed, BodyPriceFeed, BodyPlaceFeed}

\* the manual flow of ProductResource.post up to its first products query:
\* validation, the stores upsert when a place_id is given, and the choice
\* between upsert_manual_entry and the product-only branch
PostManual(w) ==
    /\ pc[w] = "idle"
    /\ started < MaxCalls
    /\ started' = started + 1
    /\ \E data \in feed :
          LET checked == _validate_manual_payload(data)
              payload == checked.payload
              model_fields == ModelFields(payload)
          IN  IF checked.error # NoError
              THEN /\ resp' = [op |-> "post", data |-> data, status |-> 400,
                               message |-> checked.error, calls |-> <<>>]
                   /\ UNCHANGED <<stores, pc, args>>
              ELSE /\ stores' = IF TruthyText(payload.place_id)
                                THEN UpsertStore(stores, payload) ELSE stores
                   /\ resp' = [op |-> "post", data |-> data, status |-> 0,
                               message |-> NoError,
                               calls |-> IF TruthyText(payload.place_id)
                                         THEN <<"stores.update_one">> ELSE <<>>]
                   /\ args' = [args EXCEPT ![w] = [now |-> started'] @@ model_fields]
                   /\ pc' = [pc EXCEPT ![w] = IF StorePath(model_fields)
                                              THEN "find_match_key" ELSE "post_find"]
    /\ UNCHANGED <<products, existing, hist, feed, queries, product_prices, store_settings, indexes,
                   _text_index_ready>>

BodyInit ==
    /\ products = <<>>
    /\ pc = [w \in Workers |-> "idle"]
    /\ args = [w \in Workers |-> NoArgs]
    /\ existing = [w \in Workers |-> NoDoc]
    /\ hist = <<>>
    /\ started = 0
    /\ feed \in BodyFeeds
    /\ queries = {}
    /\ product_prices = {}
    /\ stores = {}
    /\ store_settings = {}
    /\ indexes = <<>>
    /\ _text_index_ready = FALSE
    /\ resp = NoResp

\* bodies are served one at a time
BodyNext ==
    \E w \in Workers :
        \/ AllIdle /\ PostManual(w)
        \/ Step(w)

BodySpec == BodyInit /\ [][BodyNext]_vars

-----------------------------------------------------------------------------
(* Reads: the text index, the visibility lookup, _serialize, search,        *)
(* get_one, get_all and get_categories.  A read names the store calls that  *)
(* raise while it runs (`fails`); every other call succeeds.                *)

\* _expected_fields
ExpectedFields == {"name", "normalized_name", "brand", "category", "tags"}

\* the index create_index builds
SearchTextIndex == [name |-> "search_text", text |-> TRUE, fields |-> ExpectedFields]

\* the index every collection has
IdIndex == [name |-> "_id_", text |-> FALSE, fields |-> {}]

\* a search_text index built for an earlier schema
StaleSearchTextIndex == [name |-> "search_text", text |-> TRUE, fields |-> {"name"}]

\* a text index under another name
OtherTextIndex == [name |-> "name_text", text |-> TRUE, fields |-> {"name"}]

\* db.products.drop_index(idx_name)
drop_index(idxs, idx_name) == SelectSeq(idxs, LAMBDA idx : idx.name # idx_name)

\* the for loop over existing.items(): `ready` when it returned on a matching
\* search_text, `raised` when a drop_index raised; `current` is what the
\* collection holds while the loop runs
RECURSIVE DropLoop(_, _, _)
DropLoop(todo, current, fails) ==
    IF todo = <<>>
    THEN [ready |-> FALSE, raised |-> FALSE, indexes |-> current, calls |-> <<>>]
    ELSE LET idx == Head(todo)
             dropped == drop_index(current, idx.name)
         IN  IF idx.name = "search_text"
             THEN IF idx.fields = ExpectedFields
                  THEN [ready |-> TRUE, raised |-> FALSE, indexes |-> current, calls |-> <<>>]
                  ELSE IF "drop_index" \in fails
                  THEN [ready |-> FALSE, raised |-> TRUE, indexes |-> current,
                        calls |-> <<"drop_index">>]
                  ELSE [ready |-> FALSE, raised |-> FALSE, indexes |-> dropped,
                        calls |-> <<"drop_index">>]
             ELSE IF idx.text
             THEN IF "drop_index" \in fails
                  THEN [ready |-> FALSE, raised |-> TRUE, indexes |-> current,
                        calls |-> <<"drop_index">>]
                  ELSE LET rest == DropLoop(Tail(todo), dropped, fails)
                       IN  [rest EXCEPT !.calls = <<"drop_index">> \o @]
             ELSE DropLoop(Tail(todo), current, fails)

\* a variant that sets the flag although create_index raised
EnsureCreate_FlagAnyway(idxs, fails) ==
    IF "create_index" \in fails
    THEN [indexes |-> idxs, ready |-> TRUE, calls |-> <<"create_index">>]
    ELSE [indexes |-> Append(idxs, SearchTextIndex), ready |-> TRUE,
          calls |-> <<"create_index">>]

\* create_index and the flag, after the loop
EnsureCreate(idxs, fails) ==
    IF "create_index" \in fails
    THEN [indexes |-> idxs, ready |-> FALSE, calls |-> <<"create_index">>]
    ELSE [indexes |-> Append(idxs, SearchTextIndex), ready |-> TRUE,
          calls |-> <<"create_index">>]

\* a variant that looks at the indexes again although the flag is set
_ensure_text_index_Rechecking(idxs, ready, fails) ==
    IF "index_information" \in fails
    THEN [indexes |-> idxs, ready |-> FALSE, calls |-> <<"index_information">>]
    ELSE LET loop == DropLoop(idxs, idxs, fails)
             created == EnsureCreate(loop.indexes, fails)
         IN  IF loop.ready \/ loop.raised
             THEN [indexes |-> loop.indexes, ready |-> loop.ready,
                   calls |-> <<"index_information">> \o loop.calls]
             ELSE [created EXCEPT !.calls = <<"index_information">> \o loop.calls \o @]

\* _ensure_text_index(): the indexes and the flag it leaves, and its calls; it
\* never raises
_ensure_text_index(idxs, ready, fails) ==
    IF ready THEN [indexes |-> idxs, ready |-> TRUE, calls |-> <<>>]
    ELSE IF "index_information" \in fails
    THEN [indexes |-> idxs, ready |-> FALSE, calls |-> <<"index_information">>]
    ELSE LET loop == DropLoop(idxs, idxs, fails)
             created == EnsureCreate(loop.indexes, fails)
         IN  IF loop.ready \/ loop.raised
             THEN [indexes |-> loop.indexes, ready |-> loop.ready,
                   calls |-> <<"index_information">> \o loop.calls]
             ELSE [created EXCEPT !.calls = <<"index_information">> \o loop.calls \o @]

\* a variant that lets the failure of the settings query out
get_hidden_store_ids_Propagating(settings, fails) ==
    [raised |-> "store_settings.find" \in fails, value |-> settings]

\* get_hidden_store_ids(): the empty set when the settings query raises
get_hidden_store_ids(settings, fails) ==
    [raised |-> FALSE,
     value |-> IF "store_settings.find" \in fails THEN {} ELSE settings]

\* str(ObjectId)
ObjectIdStr(id) == IntStr(id)

\* datetime.isoformat()
isoformat(t) == IntStr(t)

\* the location_prices _serialize leaves
VisiblePrices(location_prices, hidden_stores) ==
    IF hidden_stores # {}
    THEN SelectSeq(location_prices, LAMBDA lp : lp.location_id \notin hidden_stores)
    ELSE location_prices

\* _serialize(product, hidden_stores)
_serialize(product, hidden_stores) ==
    [k \in DOMAIN product \ {"embedding", "checksum", "aliases"} |->
        IF k = "_id" THEN ObjectIdStr(product._id)
        ELSE IF k \in {"created_at", "updated_at"} THEN isoformat(product[k])
        ELSE IF k = "location_prices" THEN VisiblePrices(product.location_prices, hidden_stores)
        ELSE product[k]]

\* re.search(pattern, text) for a pattern without metacharacters
Contains(text, pattern) ==
    \E i \in 0..(Len(text) - Len(pattern)) : SubSeq(text, i + 1, i + Len(pattern)) = pattern

\* {field: {"$regex": pattern, "$options": "i"}} on a text field
RegexOnText(value, pattern) == value # TextNone /\ Contains(Lower(value), Lower(pattern))

\* the same on an array field: some element matches
RegexOnArray(values, pattern) == \E i \in DOMAIN values : RegexOnText(values[i], pattern)

\* a variant whose store filter looks at the stores of location_prices
ExtraFilters_ByLocation(doc, q) ==
    /\ TruthyText(q.category) => RegexOnText(doc.category, q.category)
    /\ TruthyText(q.tag) => RegexOnArray(doc.tags, q.tag)
    /\ TruthyText(q.store_id) =>
          \E i \in DOMAIN doc.location_prices :
              doc.location_prices[i].location_id = q.store_id

\* _build_extra_filters, applied to a document
ExtraFilters(doc, q) ==
    /\ TruthyText(q.category) => RegexOnText(doc.category, q.category)
    /\ TruthyText(q.tag) => RegexOnArray(doc.tags, q.tag)
    /\ TruthyText(q.store_id) => doc.store_id = q.store_id

\* regex_filter: the $or over name, normalized_name, brand, category, tags
RegexFilter(doc, q) ==
    /\ \/ RegexOnText(doc.name, q.query)
       \/ RegexOnText(doc.normalized_name, q.query)
       \/ RegexOnText(doc.brand, q.query)
       \/ RegexOnText(doc.category, q.query)
       \/ RegexOnArray(doc.tags, q.query)
    /\ ExtraFilters(doc, q)

\* the words of a text, as the text index sees them: runs of letters and
\* digits in lower case (stemming and stop words are left out)
RECURSIVE Terms(_)
Terms(text) ==
    LET s == Lower(text)
    IN  IF s = <<>> \/ text = TextNone THEN {}
        ELSE IF Head(s) \notin LowerSet \cup DigitSet THEN Terms(Tail(s))
        ELSE LET stops == {i \in DOMAIN s : s[i] \notin LowerSet \cup DigitSet}
                 n == IF stops = {} THEN Len(s)
                      ELSE (CHOOSE i \in stops : \A j \in stops : i <= j) - 1
             IN  {SubSeq(s, 1, n)} \cup Terms(SubSeq(s, n + 1, Len(s)))

\* the terms of an indexed field of a document
FieldTerms(doc, field) ==
    IF field = "tags" THEN UNION {Terms(doc.tags[i]) : i \in DOMAIN doc.tags}
    ELSE Terms(doc[field])

\* text_filter: {"$text": {"$search": query}} over the fields of the text
\* index, with the extra filters
TextFilter(doc, q, fields) ==
    /\ \E f \in fields : FieldTerms(doc, f) \cap Terms(q.query) # {}
    /\ ExtraFilters(doc, q)

\* the orders in which a set of ids can come back
Orderings(ids) ==
    {o \in [1..Cardinality(ids) -> ids] : \A i, j \in DOMAIN o : o[i] = o[j] => i = j}

\* .sort("updated_at", -1): most recently updated first
SortedByUpdatedDesc(coll, ids) ==
    CHOOSE o \in Orderings(ids) :
        \A i, j \in DOMAIN o : i < j => coll[o[i]].updated_at >= coll[o[j]].updated_at

\* .limit(n); a limit of 0 is no limit
Limit(seq, n) == IF n = 0 \/ Len(seq) <= n THEN seq ELSE SubSeq(seq, 1, n)

\* the documents of the ids, each put through _serialize
Serialized(coll, ids, hidden_stores) ==
    [i \in DOMAIN ids |-> _serialize(coll[ids[i]], hidden_stores)]

\* the ids a text query returns when the store ranks them as `ranking`; the
\* query raises without a text index
TextIndexes(idxs) == SelectSeq(idxs, LAMBDA idx : idx.text)

TextMatches(coll, q, idxs) ==
    IF TextIndexes(idxs) = <<>> THEN {}
    ELSE {i \in DOMAIN coll : TextFilter(coll[i], q, Head(TextIndexes(idxs)).fields)}

\* a variant in which pass 1 returns whatever the text query gave
Pass1Returns_EvenWhenEmpty(q, text_raised, text_ids) ==
    TruthyText(q.query) /\ ~text_raised

\* pass 1 returns: a query was given, the text query did not raise and it
\* gave at least one result
Pass1Returns(q, text_raised, text_ids) ==
    TruthyText(q.query) /\ ~text_raised /\ text_ids # <<>>

\* the indexes the text query of a search runs against
IndexesAfterEnsure(idxs, ready, q) ==
    IF TruthyText(q.query) THEN _ensure_text_index(idxs, ready, q.fails).indexes ELSE idxs

\* ProductModel.search: what it returns and what it did on the way, when the
\* store ranks the text matches as `ranking`
search(coll, settings, idxs, ready, q, ranking) ==
    LET fails == q.fails
        hidden == get_hidden_store_ids(settings, fails)
        ensured == IF TruthyText(q.query) THEN _ensure_text_index(idxs, ready, fails)
                   ELSE [indexes |-> idxs, ready |-> ready, calls |-> <<>>]
        text_raised == TextIndexes(ensured.indexes) = <<>> \/ "text_find" \in fails
        text_ids == IF text_raised THEN <<>> ELSE Limit(ranking, q.limit)
        regex_ids == Limit(SortedByUpdatedDesc(coll, {i \in DOMAIN coll : RegexFilter(coll[i], q)}),
                           q.limit)
        filter_ids == Limit(SortedByUpdatedDesc(coll, {i \in DOMAIN coll : ExtraFilters(coll[i], q)}),
                            q.limit)
        base == [op |-> "search", q |-> q, hidden |-> hidden.value,
                 indexes |-> ensured.indexes, ready |-> ensured.ready]
    IN  IF hidden.raised
        THEN base @@ [raised |-> TRUE, result |-> <<>>, text |-> "none",
                      calls |-> <<"store_settings.find">>]
        ELSE IF Pass1Returns(q, text_raised, text_ids)
        THEN base @@ [raised |-> FALSE,
                      result |-> Serialized(coll, text_ids, hidden.value),
                      text |-> "results",
                      calls |-> <<"store_settings.find">> \o ensured.calls \o <<"text_find">>]
        ELSE IF TruthyText(q.query)
        THEN base @@ [raised |-> FALSE,
                      result |-> IF "regex_find" \in fails THEN <<>>
                                 ELSE Serialized(coll, regex_ids, hidden.value),
                      text |-> IF text_raised THEN "raised" ELSE "empty",
                      calls |-> <<"store_settings.find">> \o ensured.calls
                                    \o <<"text_find", "regex_find">>]
        ELSE base @@ [raised |-> FALSE,
                      result |-> IF "filter_find" \in fails THEN <<>>
                                 ELSE Serialized(coll, filter_ids, hidden.value),
                      text |-> "none",
                      calls |-> <<"store_settings.find", "filter_find">>]

\* find(...).limit(n) without a sort: insertion order
NaturalOrder(ids) ==
    CHOOSE o \in Orderings(ids) : \A i, j \in DOMAIN o : i < j => o[i] < o[j]

\* ProductModel.find_by_name(query_name, limit): the text query first, then a
\* regex on name alone, whose failure is not caught
find_by_name(coll, settings, idxs, ready, q, ranking) ==
    LET fails == q.fails
        hidden == get_hidden_store_ids(settings, fails)
        ensured == _ensure_text_index(idxs, ready, fails)
        text_raised == TextIndexes(ensured.indexes) = <<>> \/ "text_find" \in fails
        text_ids == IF text_raised THEN <<>> ELSE Limit(ranking, q.limit)
        regex_ids == Limit(NaturalOrder({i \in DOMAIN coll : RegexOnText(coll[i].name, q.query)}),
                           q.limit)
        base == [op |-> "find_by_name", q |-> q, hidden |-> hidden.value,
                 indexes |-> ensured.indexes, ready |-> ensured.ready]
    IN  IF hidden.raised
        THEN base @@ [raised |-> TRUE, result |-> <<>>, text |-> "none",
                      calls |-> <<"store_settings.find">>]
        ELSE IF ~text_raised /\ text_ids # <<>>
        THEN base @@ [raised |-> FALSE,
                      result |-> Serialized(coll, text_ids, hidden.value),
                      text |-> "results",
                      calls |-> <<"store_settings.find">> \o ensured.calls \o <<"text_find">>]
        ELSE base @@ [raised |-> "regex_find" \in fails,
                      result |-> IF "regex_find" \in fails THEN <<>>
                                 ELSE Serialized(coll, regex_ids, hidden.value),
                      text |-> IF text_raised THEN "raised" ELSE "empty",
                      calls |-> <<"store_settings.find">> \o ensured.calls
                                    \o <<"text_find", "regex_find">>]

\* ProductModel.get_one(product_id): None is NoDoc; a failure of find_one is
\* not caught
get_one(coll, settings, q) ==
    LET hidden == get_hidden_store_ids(settings, q.fails)
        product == find_one(coll, {i \in DOMAIN coll : i = q.product_id})
        base == [op |-> "get_one", q |-> q, hidden |-> hidden.value]
    IN  IF "find_one" \in q.fails
        THEN base @@ [raised |-> TRUE, result |-> <<>>, calls |-> <<"find_one">>]
        ELSE IF ~Found(product)
        THEN base @@ [raised |-> FALSE, result |-> <<>>, calls |-> <<"find_one">>]
        ELSE base @@ [raised |-> hidden.raised,
                      result |-> IF hidden.raised THEN <<>>
                                 ELSE <<_serialize(product, hidden.value)>>,
                      calls |-> <<"find_one", "store_settings.find">>]

\* ProductModel.get_all(limit): a failure of find is not caught
get_all(coll, settings, q) ==
    LET hidden == get_hidden_store_ids(settings, q.fails)
        ids == Limit(SortedByUpdatedDesc(coll, DOMAIN coll), q.limit)
        base == [op |-> "get_all", q |-> q, hidden |-> hidden.value]
    IN  IF hidden.raised
        THEN base @@ [raised |-> TRUE, result |-> <<>>, calls |-> <<"store_settings.find">>]
        ELSE IF "find" \in q.fails
        THEN base @@ [raised |-> TRUE, result |-> <<>>,
                      calls |-> <<"store_settings.find", "find">>]
        ELSE base @@ [raised |-> FALSE, result |-> Serialized(coll, ids, hidden.value),
                      calls |-> <<"store_settings.find", "find">>]

\* {"$split": [text, ","]}
RECURSIVE SplitCommas(_)
SplitCommas(text) ==
    LET commas == {i \in DOMAIN text : text[i] = ","}
    IN  IF commas = {} THEN <<text>>
        ELSE LET c == CHOOSE i \in commas : \A j \in commas : i <= j
             IN  <<SubSeq(text, 1, c - 1)>> \o SplitCommas(SubSeq(text, c + 1, Len(text)))

\* $match, $split, $unwind, $trim, $match of the pipeline: the trimmed
\* non-empty pieces of a document's category; a null category unwinds to nothing
CategoryPieces(doc) ==
    IF doc.category \in {TextNone, <<>>} THEN <<>>
    ELSE SelectSeq([i \in DOMAIN SplitCommas(doc.category) |-> Strip(SplitCommas(doc.category)[i])],
                   LAMBDA piece : piece # <<>>)

\* $group with {"$sum": 1}: the number of pieces equal to the category
GroupCount(coll, cat) ==
    Cardinality(UNION {{<<d, i>> : i \in {j \in DOMAIN CategoryPieces(coll[d]) :
                                              CategoryPieces(coll[d])[j] = cat}} :
                          d \in DOMAIN coll})

GroupKeys(coll) ==
    UNION {{CategoryPieces(coll[d])[i] : i \in DOMAIN CategoryPieces(coll[d])} : d \in DOMAIN coll}

\* the outcomes of $sort by count descending, where the order of equal counts
\* is the store's
SortedGroups(coll) ==
    {o \in Orderings(GroupKeys(coll)) :
        \A i, j \in DOMAIN o : i < j => GroupCount(coll, o[i]) >= GroupCount(coll, o[j])}

\* ProductModel.get_categories(limit), when the store sorts the groups as `sorted`
get_categories(q, sorted) ==
    [op |-> "get_categories", q |-> q, raised |-> FALSE,
     result |-> IF "aggregate" \in q.fails THEN <<>> ELSE Limit(sorted, q.limit),
     calls |-> <<"aggregate">>]

-----------------------------------------------------------------------------
(* Read requests and the runs that mix them with ingestion *)

Teapot == <<"t", "e", "a", "p", "o", "t">>
GreenTea == <<"g", "r", "e", "e", "n", " ", "t", "e", "a">>
Milk == <<"m", "i", "l", "k">>
Rice == <<"r", "i", "c", "e">>
Pot == <<"p", "o", "t">>
Zz == <<"z", "z">>
DairyLower == <<"d", "a", "i", "r", "y">>

\* the queries of a search that can raise
SearchFailPoints == {"store_settings.find", "text_find", "regex_find", "filter_find"}

SearchQuery(query, category, tag, store_id, limit, fails) ==
    [op |-> "search", query |-> query, category |-> category, tag |-> tag,
     store_id |-> store_id, limit |-> limit, fails |-> fails]

FindByNameQuery(query_name, limit, fails) ==
    [op |-> "find_by_name", query |-> query_name, category |-> TextNone, tag |-> TextNone,
     store_id |-> TextNone, limit |-> limit, fails |-> fails]

GetOneQuery(product_id, fails) == [op |-> "get_one", product_id |-> product_id, fails |-> fails]

GetAllQuery(limit, fails) == [op |-> "get_all", limit |-> limit, fails |-> fails]

CategoriesQuery(limit, fails) == [op |-> "get_categories", limit |-> limit, fails |-> fails]

\* no filter, or one of the three
OneFilter ==
    {[category |-> TextNone, tag |-> TextNone, store_id |-> TextNone],
     [category |-> DairyLower, tag |-> TextNone, store_id |-> TextNone],
     [category |-> TextNone, tag |-> DairyLower, store_id |-> TextNone],
     [category |-> TextNone, tag |-> TextNone, store_id |-> StoreA]}

\* searches with and without a query, whose text query works or raises
PassQueries ==
    {SearchQuery(query, f.category, f.tag, f.store_id, limit, fails) :
        query \in {TextNone, <<>>, Tea, Pot, Zz, GreenTea},
        f \in OneFilter, limit \in {1, 50}, fails \in {{}, {"text_find"}}}

PassFeed ==
    {Obs(Tea, StoreA, 100000, TextNone, Dairy, TextNone, TextNone, TextNone),
     Obs(Teapot, StoreB, 100000, BrandX, TextNone, TextNone, TextNone, TextNone),
     Obs(GreenTea, StoreA, 100000, TextNone, Snacks, TextNone, TextNone, TextNone),
     Bare(Tea, TextNone, TextNone, TextNone, TextNone)}

\* every combination of query, category, tag and store_id with every set of
\* failing calls
FailureQueries ==
    {SearchQuery(query, category, tag, store_id, 50, fails) :
        query \in {TextNone, Tea}, category \in {TextNone, DairyLower},
        tag \in {TextNone, DairyLower}, store_id \in {TextNone, StoreA},
        fails \in SUBSET SearchFailPoints}

FailureFeed ==
    {Obs(Tea, StoreA, 100000, TextNone, Dairy, TextNone, TextNone, TextNone),
     Obs(Teapot, StoreB, 100000, TextNone, TextNone, TextNone, TextNone, TextNone)}

\* the three kinds of read, with the visibility lookup working or raising
HiddenQueries ==
    {GetOneQuery(id, fails) : id \in 1..3, fails \in {{}, {"store_settings.find"}, {"find_one"}}}
    \cup {GetAllQuery(limit, fails) :
            limit \in {1, 50}, fails \in {{}, {"store_settings.find"}, {"find"}}}
    \cup {SearchQuery(query, TextNone, TextNone, TextNone, 50, fails) :
            query \in {TextNone, Tea, Pot}, fails \in {{}, {"store_settings.find"}, {"text_find"}}}

HiddenFeed ==
    {Obs(Tea, StoreA, 100000, TextNone, TextNone, TextNone, TextNone, TextNone),
     Obs(Tea, StoreB, 200000, TextNone, TextNone, TextNone, TextNone, TextNone),
     Obs(Teapot, StoreA, 100000, TextNone, TextNone, TextNone, TextNone, TextNone),
     Bare(Tea, TextNone, TextNone, TextNone, TextNone)}

\* searches while index maintenance fails
IndexQueries ==
    {SearchQuery(query, TextNone, TextNone, TextNone, 50, fails) :
        query \in {TextNone, Tea, Pot},
        fails \in SUBSET {"index_information", "drop_index", "create_index", "text_find"}}
    \cup {FindByNameQuery(query_name, 50, fails) :
            query_name \in {Tea, Pot},
            fails \in {{}, {"index_information"}, {"create_index"}, {"regex_find"}}}

\* searches by store, with and without a query
StoreQueries ==
    {SearchQuery(query, TextNone, TextNone, store_id, 50, {}) :
        query \in {TextNone, Tea}, store_id \in {StoreA, StoreB}}

CommaFeed ==
    {Obs(Tea, StoreA, 100000, TextNone, <<"A", ",", "A", ",", "A">>, TextNone, TextNone, TextNone),
     Obs(Milk, StoreA, 100000, TextNone, <<"B">>, TextNone, TextNone, TextNone),
     Obs(Rice, StoreA, 100000, TextNone, <<"B">>, TextNone, TextNone, TextNone),
     Obs(Rice, StoreA, 100000, TextNone, <<" ", "A", " ", ",", " ", "B", ",">>, TextNone, TextNone, TextNone),
     Obs(Milk, StoreA, 100000, TextNone, TextNone, TextNone, TextNone, TextNone)}

CategoriesQueries ==
    {CategoriesQuery(limit, fails) : limit \in {1, 2, 20}, fails \in {{}, {"aggregate"}}}

\* what a run starts from: the writes and reads its clients submit, the
\* hidden stores and the indexes the collection has
Scenario(writes, reads, hidden, idxs) ==
    [feed |-> writes, queries |-> reads, store_settings |-> hidden, indexes |-> idxs]

Scenarios ==
    {Scenario(PassFeed, PassQueries, {}, <<IdIndex>>)}
    \cup {Scenario(FailureFeed, FailureQueries, {StoreA}, idxs) :
            idxs \in {<<IdIndex>>, <<IdIndex, StaleSearchTextIndex>>}}
    \cup {Scenario(HiddenFeed, HiddenQueries, hidden, <<IdIndex>>) :
            hidden \in SUBSET {StoreA, StoreB}}
    \cup {Scenario(FailureFeed, IndexQueries, {}, idxs) :
            idxs \in {<<IdIndex>>, <<IdIndex, SearchTextIndex>>,
                      <<IdIndex, StaleSearchTextIndex>>, <<IdIndex, OtherTextIndex>>}}
    \cup {Scenario(CommaFeed, CategoriesQueries, {}, <<IdIndex>>)}
    \cup {Scenario(HiddenFeed, StoreQueries, {}, <<IdIndex>>)}

ReadInit ==
    /\ products = <<>>
    /\ pc = [w \in Workers |-> "idle"]
    /\ args = [w \in Workers |-> NoArgs]
    /\ existing = [w \in Workers |-> NoDoc]
    /\ hist = <<>>
    /\ started = 0
    /\ stores = {}
    /\ _text_index_ready = FALSE
    /\ resp = NoResp
    /\ \E sc \in Scenarios :
          /\ feed = sc.feed
          /\ queries = sc.queries
          /\ product_prices = {}
          /\ store_settings = sc.store_settings
          /\ indexes = sc.indexes

\* no request is being served and no response is waiting to be sent
Quiet == AllIdle /\ resp = NoResp

\* ProductModel.search(query, category, tag, store_id, limit)
Search ==
    /\ Quiet
    /\ \E q \in queries :
          /\ q.op = "search"
          /\ \E ranking \in Orderings(TextMatches(products, q,
                                   IndexesAfterEnsure(indexes, _text_index_ready, q))) :
                \E out \in {search(products, store_settings, indexes, _text_index_ready,
                                    q, ranking)} :
                    /\ resp' = out
                    /\ indexes' = out.indexes
                    /\ _text_index_ready' = out.ready
    /\ UNCHANGED <<products, pc, args, existing, hist, started, feed, queries, product_prices,
                   stores, store_settings>>

\* ProductModel.find_by_name(query_name, limit)
FindByName ==
    /\ Quiet
    /\ \E q \in queries :
          /\ q.op = "find_by_name"
          /\ \E ranking \in Orderings(TextMatches(products, q,
                                   _ensure_text_index(indexes, _text_index_ready,
                                                      q.fails).indexes)) :
                \E out \in {find_by_name(products, store_settings, indexes,
                                          _text_index_ready, q, ranking)} :
                    /\ resp' = out
                    /\ indexes' = out.indexes
                    /\ _text_index_ready' = out.ready
    /\ UNCHANGED <<products, pc, args, existing, hist, started, feed, queries, product_prices,
                   stores, store_settings>>

\* ProductModel.get_one(product_id)
GetOne ==
    /\ Quiet
    /\ \E q \in queries :
          /\ q.op = "get_one"
          /\ resp' = get_one(products, store_settings, q)
    /\ UNCHANGED <<products, pc, args, existing, hist, started, feed, queries, product_prices,
                   stores, store_settings, indexes, _text_index_ready>>

\* ProductModel.get_all(limit)
GetAll ==
    /\ Quiet
    /\ \E q \in queries :
          /\ q.op = "get_all"
          /\ resp' = get_all(products, store_settings, q)
    /\ UNCHANGED <<products, pc, args, existing, hist, started, feed, queries, product_prices,
                   stores, store_settings, indexes, _text_index_ready>>

\* ProductModel.get_categories(limit)
GetCategories ==
    /\ Quiet
    /\ \E q \in queries :
          /\ q.op = "get_categories"
          /\ \E sorted \in SortedGroups(products) : resp' = get_categories(q, sorted)
    /\ UNCHANGED <<products, pc, args, existing, hist, started, feed, queries, product_prices,
                   stores, store_settings, indexes, _text_index_ready>>

\* the response goes out to the client
Respond ==
    /\ resp # NoResp
    /\ resp' = NoResp
    /\ UNCHANGED <<products, pc, args, existing, hist, started, feed, queries, product_prices,
                   stores, store_settings, indexes, _text_index_ready>>

\* writes and reads are served one at a time
ReadNext ==
    \/ \E w \in Workers :
          \/ Quiet /\ UpsertCall(w)
          \/ Quiet /\ PostCall(w)
          \/ Step(w)
    \/ Search
    \/ FindByName
    \/ GetOne
    \/ GetAll
    \/ GetCategories
    \/ Respond

ReadSpec == ReadInit /\ [][ReadNext]_vars

-----------------------------------------------------------------------------
(* The pure functions applied to bounded inputs: the input is drawn at the  *)
(* start and one call computes the output.                                  *)

MaxNameLen == 3

NameAlphabet == {"u", "V", "3", "-", " ", "\t"}

NameInputs ==
    {[fn |-> "_normalize_name", text |-> t] :
        t \in UNION {[1..k -> NameAlphabet] : k \in 0..MaxNameLen}}

PackCounts == {4, 6, 12}

\* the pack-count phrases for a count n
PackPhrases(n) ==
    {<<"p", "a", "c", "k", " ", "o", "f", " ">> \o IntStr(n),
     <<"P", "a", "c", "k", " ", "o", "f", " ">> \o IntStr(n),
     IntStr(n) \o <<" ", "p", "a", "c", "k">>,
     IntStr(n) \o <<" ", "p", "a", "c", "k", "s">>,
     IntStr(n) \o <<"p", "k">>,
     IntStr(n) \o <<" ", "c", "t">>,
     IntStr(n) \o <<" ", "c", "o", "u", "n", "t">>}

\* texts of a size in a measure unit, with the value and unit they spell
Measures ==
    {[text |-> <<"3", "3", "0", "m", "l">>, value |-> 330000, unit |-> <<"m", "l">>],
     [text |-> <<"1", ".", "5", " ", "l">>, value |-> 1500, unit |-> <<"l">>],
     [text |-> <<"2", "k", "g">>, value |-> 2000, unit |-> <<"k", "g">>]}

PackInput(text, n, value, unit) ==
    [fn |-> "_parse_size", kind |-> "pack", text |-> text, count |-> n,
     value |-> value, unit |-> unit]

\* a pack-count phrase alone, or followed or preceded by a size in a measure unit
PackInputs ==
    UNION {{PackInput(p, n, NumNone, TextNone) : p \in PackPhrases(n)}
           \cup {PackInput(p \o <<" ">> \o m.text, n, m.value, m.unit) :
                    p \in PackPhrases(n), m \in Measures}
           \cup {PackInput(m.text \o <<" ">> \o p, n, m.value, m.unit) :
                    p \in PackPhrases(n), m \in Measures} : n \in PackCounts}

\* every listed spelling of a unit with the unit it stands for
UnitSpellings ==
    {[spelling |-> <<"m", "l">>, unit |-> <<"m", "l">>],
     [spelling |-> <<"l">>, unit |-> <<"l">>],
     [spelling |-> <<"l", "i", "t", "r", "e">>, unit |-> <<"l">>],
     [spelling |-> <<"l", "i", "t", "e", "r">>, unit |-> <<"l">>],
     [spelling |-> <<"g">>, unit |-> <<"g">>],
     [spelling |-> <<"k", "g">>, unit |-> <<"k", "g">>],
     [spelling |-> <<"o", "z">>, unit |-> <<"o", "z">>],
     [spelling |-> <<"f", "l", " ", "o", "z">>, unit |-> <<"o", "z">>],
     [spelling |-> <<"l", "b">>, unit |-> <<"l", "b">>],
     [spelling |-> <<"l", "b", "s">>, unit |-> <<"l", "b">>],
     [spelling |-> <<"g", "a", "l">>, unit |-> <<"g", "a", "l">>],
     [spelling |-> <<"g", "a", "l", "l", "o", "n">>, unit |-> <<"g", "a", "l">>],
     [spelling |-> <<"g", "a", "l", "l", "o", "n", "s">>, unit |-> <<"g", "a", "l">>],
     [spelling |-> <<"p", "t">>, unit |-> <<"p", "t">>],
     [spelling |-> <<"p", "i", "n", "t">>, unit |-> <<"p", "t">>],
     [spelling |-> <<"p", "i", "n", "t", "s">>, unit |-> <<"p", "t">>],
     [spelling |-> <<"q", "t">>, unit |-> <<"q", "t">>],
     [spelling |-> <<"q", "u", "a", "r", "t">>, unit |-> <<"q", "t">>],
     [spelling |-> <<"q", "u", "a", "r", "t", "s">>, unit |-> <<"q", "t">>],
     [spelling |-> <<"c", "l">>, unit |-> <<"c", "l">>],
     [spelling |-> <<"m", "g">>, unit |-> <<"m", "g">>],
     [spelling |-> <<"p", "k">>, unit |-> <<"p", "a", "c", "k">>],
     [spelling |-> <<"p", "a", "c", "k">>, unit |-> <<"p", "a", "c", "k">>],
     [spelling |-> <<"p", "a", "c", "k", "s">>, unit |-> <<"p", "a", "c", "k">>],
     [spelling |-> <<"c", "t">>, unit |-> <<"c", "t">>],
     [spelling |-> <<"c", "o", "u", "n", "t">>, unit |-> <<"c", "t">>]}

\* the spelling as listed, or in upper case
Casing(s, upper) == IF upper THEN Upper(s) ELSE s

\* "<value><unit>" and "<value> <unit>" for every spelling, in either case
UnitInputs ==
    {[fn |-> "_parse_size", kind |-> "unit", text |-> v.text \o sep \o Casing(u.spelling, upper),
      count |-> NumNone, value |-> v.value, unit |-> u.unit] :
        v \in {[text |-> <<"2">>, value |-> 2000], [text |-> <<"1", ".", "5">>, value |-> 1500]},
        sep \in {<<>>, <<" ">>},
        u \in UnitSpellings, upper \in BOOLEAN}

FnInputs == NameInputs \cup PackInputs \cup UnitInputs

FnInit ==
    /\ products = <<>>
    /\ pc = [w \in Workers |-> "idle"]
    /\ args = [w \in Workers |-> NoArgs]
    /\ existing = [w \in Workers |-> NoDoc]
    /\ hist = <<>>
    /\ started = 0
    /\ feed = {}
    /\ queries = {}
    /\ product_prices = {}
    /\ stores = {}
    /\ store_settings = {}
    /\ indexes = <<>>
    /\ _text_index_ready = FALSE
    /\ resp \in {[op |-> "input", in |-> i] : i \in FnInputs}

\* _normalize_name(name) is called
NormalizeName ==
    /\ resp.op = "input"
    /\ resp.in.fn = "_normalize_name"
    /\ resp' = [op |-> "_normalize_name", in |-> resp.in, out |-> _normalize_name(resp.in.text)]
    /\ UNCHANGED <<products, pc, args, existing, hist, started, feed, queries, product_prices,
                   stores, store_settings, indexes, _text_index_ready>>

\* _parse_size(text) is called
ParseSize ==
    /\ resp.op = "input"
    /\ resp.in.fn = "_parse_size"
    /\ resp' = [op |-> "_parse_size", in |-> resp.in, out |-> _parse_size(resp.in.text)]
    /\ UNCHANGED <<products, pc, args, existing, hist, started, feed, queries, product_prices,
                   stores, store_settings, indexes, _text_index_ready>>

FnNext == NormalizeName \/ ParseSize

FnSpec == FnInit /\ [][FnNext]_vars

-----------------------------------------------------------------------------
(* The legacy collections: StoreModel.get_or_create over db.stores,         *)
(* ProductPriceModel.upsert_price over db.product_prices, and the legacy    *)
(* flow of ProductResource.post that calls them.  A dict is a record over   *)
(* the keys in use, Absent where the key is not there.                      *)

MaxLegacyCalls == 2

StoreS == <<"S">>
StoreT == <<"T">>
PlaceQ == <<"q">>
AddrX == <<"x">>
AddrY == <<"y">>

\* store_data / store_info
StoreData(store, place_id, address) ==
    [store |-> store, place_id |-> place_id, address |-> address]

\* dict.get(key) is falsy: key missing, None or ""
Falsy(v) == v \in {Absent, TextNone, <<>>}

\* clean_data = {k: v for k, v in store_data.items() if v is not None}
clean_data(store_data) ==
    [k \in DOMAIN store_data |-> IF store_data[k] = TextNone THEN Absent ELSE store_data[k]]

NoStore == [_id |-> 0]

\* the store with this place_id, NoStore when there is none
StoreAt(coll, place_id) ==
    IF \E st \in coll : st.place_id = place_id
    THEN CHOOSE st \in coll : st.place_id = place_id
    ELSE NoStore

\* a variant without upsert matching: a document is inserted on every call
find_one_and_update_Insert(coll, place_id, fields) ==
    LET doc == ("_id" :> Cardinality(coll) + 1) @@ fields
    IN  [coll |-> coll \cup {doc}, doc |-> doc]

\* collection.find_one_and_update({"place_id": place_id},
\*     {"$setOnInsert": fields}, upsert=True, return_document=AFTER)
find_one_and_update(coll, place_id, fields) ==
    LET old == StoreAt(coll, place_id)
        doc == IF old = NoStore
               THEN ("_id" :> Cardinality(coll) + 1) @@ fields
               ELSE old
    IN  [coll |-> coll \cup {doc}, doc |-> doc]

\* StoreModel.get_or_create(self, store_data)
get_or_create(coll, store_data) ==
    IF Falsy(store_data.store)
    THEN [coll |-> coll, raised |-> "ValueError", id |-> 0]
    ELSE IF Falsy(store_data.place_id)
    THEN [coll |-> coll, raised |-> "ValueError", id |-> 0]
    ELSE LET out == find_one_and_update(coll, store_data.place_id, clean_data(store_data))
         IN  [coll |-> out.coll, raised |-> "no", id |-> out.doc._id]

\* Python's binding of a call to `def get_or_create(self, store_data)`: the
\* positional arguments fill self and store_data in turn, and a call that
\* leaves store_data unfilled raises TypeError before the body runs
BindGetOrCreate(coll, positional) ==
    IF Len(positional) # 2
    THEN [coll |-> coll, raised |-> "TypeError", id |-> 0]
    ELSE get_or_create(coll, positional[2])

\* store_model = StoreModel(db.stores)
store_model == "store_model"

StoreInputs ==
    {StoreData(st, pl, ad) :
        st \in {Absent, TextNone, StoreS, StoreT},
        pl \in {Absent, PlaceP, PlaceQ},
        ad \in {Absent, TextNone, AddrX, AddrY}}

\* price documents
ProductIds == {<<"1">>, <<"2">>}
StoreIds == {<<"7">>, <<"8">>}
BadId == <<"z">>
Usd == <<"U","S","D">>

\* ObjectId(text) raises InvalidId unless text is a hex id
InvalidId(text) == ~(text # <<>> /\ \A i \in DOMAIN text : text[i] \in DigitSet)

NoPrice == [_id |-> 0]

PriceAt(coll, product_id, store_id) ==
    IF \E pr \in coll : pr.product_id = product_id /\ pr.store_id = store_id
    THEN CHOOSE pr \in coll : pr.product_id = product_id /\ pr.store_id = store_id
    ELSE NoPrice

\* a variant that inserts a new price document on every call
upsert_price_AlwaysInsert(coll, product_id, store_id, price, currency, now) ==
    IF InvalidId(product_id) \/ InvalidId(store_id)
    THEN [coll |-> coll, raised |-> "InvalidId", id |-> 0]
    ELSE LET doc == [_id |-> Cardinality(coll) + 1, product_id |-> product_id,
                     store_id |-> store_id, price |-> price, currency |-> currency,
                     last_updated |-> now]
         IN  [coll |-> coll \cup {doc}, raised |-> "no", id |-> doc._id]

\* ProductPriceModel.upsert_price(product_id, store_id, price, currency)
upsert_price(coll, product_id, store_id, price, currency, now) ==
    IF InvalidId(product_id) \/ InvalidId(store_id)
    THEN [coll |-> coll, raised |-> "InvalidId", id |-> 0]
    ELSE LET old == PriceAt(coll, product_id, store_id)
             doc == [_id |-> IF old = NoPrice THEN Cardinality(coll) + 1 ELSE old._id,
                     product_id |-> product_id, store_id |-> store_id,
                     price |-> price, currency |-> currency, last_updated |-> now]
         IN  [coll |-> (coll \ {old}) \cup {doc}, raised |-> "no", id |-> doc._id]

\* ProductModel.get_or_create_product(data)
get_or_create_product(coll, data) ==
    IF Falsy(data.name)
    THEN [coll |-> coll, raised |-> "ValueError", id |-> 0]
    ELSE LET found == find_one(coll, {i \in DOMAIN coll : coll[i].name = data.name})
         IN  IF Found(found)
             THEN [coll |-> coll, raised |-> "no", id |-> found._id]
             ELSE [coll |-> insert_one(coll, data), raised |-> "no", id |-> Len(coll) + 1]

\* a JSON value of the legacy body's price
JsonAbsent == [type |-> "absent"]
JsonNull == [type |-> "null"]
JsonString == [type |-> "string"]
JsonNumber == [type |-> "number"]
JsonBool == [type |-> "bool"]

\* isinstance(price, (int, float)); bool is a subclass of int
IsIntOrFloat(price) == price.type \in {"number", "bool"}

\* product_data
ProductData(name) == [name |-> name]

\* a body of the legacy flow
Legacy(product_data, store_info, price) ==
    [product_data |-> product_data, store_info |-> store_info, price |-> price,
     currency |-> JMD]

\* data.get("product_data") / data.get("store_info") when the key is missing
NoDict == [missing |-> TRUE]

\* `not d` for a dict or a missing key: no key is there
EmptyDict(d) == d = NoDict \/ \A k \in DOMAIN d : d[k] = Absent

LegacyInputs ==
    {Legacy(pd, si, pr) :
        pd \in {NoDict, ProductData(Absent), ProductData(Tea)},
        si \in {NoDict, StoreData(Absent, Absent, Absent), StoreData(StoreS, Absent, Absent),
                StoreData(Absent, PlaceP, Absent), StoreData(StoreS, PlaceP, AddrX)},
        pr \in {JsonAbsent, JsonNull, JsonString, JsonNumber, JsonBool}}
    \ {Legacy(NoDict, NoDict, pr) : pr \in {JsonAbsent, JsonNull, JsonString, JsonNumber, JsonBool}}

\* no check failed
Passed == ""
NameRequired == "Product data with name is required"
StoreInfoRequired == "Store info is required"
PlaceIdRequired == "Store place_id is required"
PriceNumberRequired == "Price is required and must be a number"

\* the checks of lines 183-190, in order
LegacyError(data) ==
    IF EmptyDict(data.product_data) \/ Falsy(data.product_data.name) THEN NameRequired
    ELSE IF EmptyDict(data.store_info) THEN StoreInfoRequired
    ELSE IF Falsy(data.store_info.place_id) THEN PlaceIdRequired
    ELSE IF data.price.type = "absent" \/ data.price.type = "null" \/ ~IsIntOrFloat(data.price)
         THEN PriceNumberRequired
    ELSE Passed

\* `except ValueError` gives 400, `except Exception` gives 500
StatusOf(raised) == IF raised = "ValueError" THEN 400 ELSE 500

\* the legacy flow of ProductResource.post after validation: the three model
\* calls in turn, each skipped when an earlier one raised
LegacySteps(st, prods, prices, data, now) ==
    LET s1 == BindGetOrCreate(st, <<data.store_info>>)
    IN  IF s1.raised # "no"
        THEN [stores |-> s1.coll, products |-> prods, product_prices |-> prices,
              status |-> StatusOf(s1.raised), raised |-> s1.raised,
              calls |-> <<"StoreModel.get_or_create">>]
        ELSE
    LET s2 == get_or_create_product(prods, data.product_data)
    IN  IF s2.raised # "no"
        THEN [stores |-> s1.coll, products |-> s2.coll, product_prices |-> prices,
              status |-> StatusOf(s2.raised), raised |-> s2.raised,
              calls |-> <<"StoreModel.get_or_create", "ProductModel.get_or_create_product">>]
        ELSE
    LET s3 == upsert_price(prices, IntStr(s2.id), IntStr(s1.id), data.price, data.currency, now)
    IN  [stores |-> s1.coll, products |-> s2.coll, product_prices |-> s3.coll,
         status |-> IF s3.raised = "no" THEN 201 ELSE StatusOf(s3.raised),
         raised |-> s3.raised,
         calls |-> <<"StoreModel.get_or_create", "ProductModel.get_or_create_product",
                     "ProductPriceModel.upsert_price">>]

LegacyInit ==
    /\ products = <<>>
    /\ pc = [w \in Workers |-> "idle"]
    /\ args = [w \in Workers |-> NoArgs]
    /\ existing = [w \in Workers |-> NoDoc]
    /\ hist = <<>>
    /\ started = 0
    /\ feed = {}
    /\ queries = {}
    /\ product_prices = {}
    /\ stores = {}
    /\ store_settings = {}
    /\ indexes = <<>>
    /\ _text_index_ready = FALSE
    /\ resp = NoResp

\* store_model.get_or_create(store_data)
GetOrCreateStore ==
    /\ started < MaxLegacyCalls
    /\ started' = started + 1
    /\ \E store_data \in StoreInputs :
          \E out \in {BindGetOrCreate(stores, <<store_model, store_data>>)} :
              /\ stores' = out.coll
              /\ resp' = [op |-> "get_or_create", store_data |-> store_data,
                          raised |-> out.raised, id |-> out.id]
    /\ UNCHANGED <<products, pc, args, existing, hist, feed, queries, product_prices,
                   store_settings, indexes, _text_index_ready>>

\* ProductPriceModel.upsert_price(product_id, store_id, price, currency)
UpsertPrice ==
    /\ started < MaxLegacyCalls
    /\ started' = started + 1
    /\ \E product_id \in ProductIds \cup {BadId}, store_id \in StoreIds \cup {BadId},
          price \in {100000, 200000}, currency \in {JMD, Usd} :
          \E out \in {upsert_price(product_prices, product_id, store_id, price, currency,
                                   started')} :
              /\ product_prices' = out.coll
              /\ resp' = [op |-> "upsert_price", product_id |-> product_id,
                          store_id |-> store_id, price |-> price, currency |-> currency,
                          now |-> started', raised |-> out.raised, id |-> out.id]
    /\ UNCHANGED <<products, pc, args, existing, hist, feed, queries, stores,
                   store_settings, indexes, _text_index_ready>>

\* POST /products with product_data or store_info in the body
LegacyPost ==
    /\ started < MaxLegacyCalls
    /\ started' = started + 1
    /\ \E data \in LegacyInputs :
          LET error == LegacyError(data)
          IN  IF error # Passed
              THEN /\ resp' = [op |-> "legacy_post", data |-> data, status |-> 400,
                               message |-> error, raised |-> "no", calls |-> <<>>]
                   /\ UNCHANGED <<stores, products, product_prices>>
              ELSE \E out \in {LegacySteps(stores, products, product_prices, data, started')} :
                   /\ stores' = out.stores
                   /\ products' = out.products
                   /\ product_prices' = out.product_prices
                   /\ resp' = [op |-> "legacy_post", data |-> data, status |-> out.status,
                               message |-> Passed, raised |-> out.raised,
                               calls |-> out.calls]
    /\ UNCHANGED <<pc, args, existing, hist, feed, queries, store_settings, indexes,
                   _text_index_ready>>

LegacyNext == GetOrCreateStore \/ UpsertPrice \/ LegacyPost

LegacySpec == LegacyInit /\ [][LegacyNext]_vars

-----------------------------------------------------------------------------
(* Properties *)

Upserts == {i \in DOMAIN hist : StorePath(hist[i].args)}
Posts == {i \in DOMAIN hist : ~StorePath(hist[i].args)}

\* C1: in every state reachable by upsert_manual_entry calls from the empty
\* catalog, interleaved ones included, no product holds two location_prices
\* entries with the same location_id.
C1_OnePricePerLocation ==
    \A d \in DOMAIN products :
        \A i, j \in DOMAIN products[d].location_prices :
            products[d].location_prices[i].location_id
                = products[d].location_prices[j].location_id => i = j

\* a merge that wrote from a stale snapshot has completed on a product that
\* holds the observations of two stores
C1_Witness ==
    \E i \in Upserts :
        /\ ~hist[i].created
        /\ hist[i].stale
        /\ Len(products[hist[i].id].location_prices) = 2

SameProductArgs(a, b) ==
    a.name = b.name /\ a.brand = b.brand /\ a.size_hint = b.size_hint

\* C2: when a call that created a product is followed by a call with the
\* same name, brand, size hint and store and a price p2, the second call
\* returns the same id with created=False, one product carries the match key,
\* and its location_prices is the single entry (store, p2).
C2_RepeatMerges ==
    \A i \in Upserts :
        (/\ i = Len(hist)
         /\ i - 1 \in Upserts
         /\ hist[i - 1].created
         /\ SameProductArgs(hist[i - 1].args, hist[i].args)
         /\ hist[i - 1].args.store_id = hist[i].args.store_id)
        => /\ hist[i].id = hist[i - 1].id
           /\ ~hist[i].created
           /\ Cardinality({d \in DOMAIN products :
                              products[d].match_key = match_key(hist[i].args)}) = 1
           /\ Len(products[hist[i].id].location_prices) = 1
           /\ products[hist[i].id].location_prices[1].location_id = hist[i].args.store_id
           /\ products[hist[i].id].location_prices[1].amount = hist[i].args.price

C2_Witness ==
    /\ Len(hist) = 2
    /\ Upserts = {1, 2}
    /\ hist[1].created
    /\ SameProductArgs(hist[1].args, hist[2].args)
    /\ hist[1].args.store_id = hist[2].args.store_id
    /\ hist[1].args.price # hist[2].args.price
    /\ Len(products) = 1

\* C3: after every upsert_manual_entry call, create path and merge path, the
\* product's estimated_price is the mean of its location_prices amounts
\* rounded to 2 decimals.
C3_EstimatedPriceIsRoundedMean ==
    \A i \in Upserts :
        i = Len(hist) =>
            products[hist[i].id].estimated_price
                = MeanPrice(products[hist[i].id].location_prices)

\* C4: every call that takes the create path inserts a document of its own
\* under its match key and returns created=True, also when another call has
\* inserted the same match key since its lookups: no uniqueness constraint
\* stops the second insert.
C4_CreateAlwaysInserts ==
    \A i \in Upserts :
        hist[i].created =>
            /\ hist[i].id \in DOMAIN products
            /\ products[hist[i].id].match_key = match_key(hist[i].args)
            /\ \A j \in DOMAIN hist : (j # i /\ hist[j].created) => hist[j].id # hist[i].id

\* two calls for the same unknown product both returned created=True and two
\* documents carry the same match key
C4_Witness ==
    \E i, j \in Upserts :
        /\ i < j
        /\ hist[i].created /\ hist[j].created /\ hist[j].stale
        /\ [hist[i].args EXCEPT !.now = 0] = [hist[j].args EXCEPT !.now = 0]
        /\ hist[i].id # hist[j].id
        /\ products[hist[i].id].match_key = products[hist[j].id].match_key

KeyFields(a) ==
    <<_normalize_name(a.name), _clean_optional_text(a.brand), parsed_size(a).value,
      parsed_size(a).unit, parsed_size(a).pack_count>>

\* C5: two calls compute the same match key exactly when their normalized
\* name, brand, size value, size unit and pack count are all equal; a field
\* that is None and a field that holds a parsed value give different keys.
C5_KeyEqualIffFieldsEqual ==
    \A i, j \in Upserts :
        (match_key(hist[i].args) = match_key(hist[j].args))
            <=> (KeyFields(hist[i].args) = KeyFields(hist[j].args))

SuppliedBrand(i) ==
    IF StorePath(hist[i].args) THEN _clean_optional_text(hist[i].args.brand)
    ELSE hist[i].args.brand

\* the ingestions that resolved to product d and supplied a non-empty brand
BrandSuppliers(d) == {i \in DOMAIN hist : hist[i].id = d /\ TruthyText(SuppliedBrand(i))}

\* C6: when requests are served one after the other, a product's brand is the
\* first non-empty brand supplied by an ingestion that resolved to it, and a
\* non-empty brand is never changed by a later ingestion.
C6_FirstBrandWins ==
    /\ [](\A d \in DOMAIN products :
            BrandSuppliers(d) # {} =>
                products[d].brand
                    = SuppliedBrand(CHOOSE i \in BrandSuppliers(d) :
                                        \A j \in BrandSuppliers(d) : i <= j))
    /\ [][\A d \in DOMAIN products :
            TruthyText(products[d].brand) => products'[d].brand = products[d].brand]_vars

\* a product keeps brand X although a later ingestion that resolved to it
\* supplied brand Y
C6_Witness ==
    \E i, j \in DOMAIN hist :
        /\ i < j
        /\ hist[i].id = hist[j].id
        /\ TruthyText(SuppliedBrand(i)) /\ TruthyText(SuppliedBrand(j))
        /\ SuppliedBrand(i) # SuppliedBrand(j)
        /\ products[hist[i].id].brand = SuppliedBrand(i)

\* worker w performs the update_one of the merge path in this step
MergeStep(w) == pc[w] = "write" /\ Found(existing[w]) /\ pc'[w] = "idle"

\* C7 as claimed: a merge appends to tags only when it sets a category that
\* was unset; on a product with a non-empty category a merge changes
\* neither category nor tags.
C7_TagsOnlyWhenCategoryFirstSet ==
    [][\A w \in Workers :
          MergeStep(w) =>
              LET old == products[existing[w]._id]
                  new == products'[existing[w]._id]
              IN  /\ new.tags # old.tags =>
                        /\ ~TruthyText(old.category)
                        /\ TruthyText(new.category)
                        /\ new.tags = Append(old.tags, Lower(new.category))
                  /\ TruthyText(old.category) =>
                        new.category = old.category /\ new.tags = old.tags]_vars

\* C7 amended: a merge appends the lowercased incoming category to tags
\* whenever a category is supplied and its lowercase form is not yet in tags,
\* whether or not the product already has a category; the category itself is
\* set only when it was unset.
C7_TagsWheneverCategorySupplied ==
    [][\A w \in Workers :
          MergeStep(w) =>
              LET old == products[existing[w]._id]
                  new == products'[existing[w]._id]
                  cat == _clean_optional_text(args[w].category)
              IN  /\ new.tags = IF TruthyText(cat) /\ ~InSeq(Lower(cat), old.tags)
                                THEN Append(old.tags, Lower(cat)) ELSE old.tags
                  /\ new.category = IF TruthyText(cat) /\ ~TruthyText(old.category)
                                    THEN cat ELSE old.category]_vars

\* a merge that supplied a category other than the product's has left its
\* lowercase form in the product's tags
C7_Witness ==
    \E i \in Upserts :
        LET cat == _clean_optional_text(hist[i].args.category)
            doc == products[hist[i].id]
        IN  /\ ~hist[i].created
            /\ TruthyText(cat)
            /\ TruthyText(doc.category) /\ doc.category # cat
            /\ InSeq(Lower(cat), doc.tags)
            /\ InSeq(Lower(doc.category), doc.tags)

\* C8: a merge changes url only if the stored url is unset, or is a manual://
\* placeholder and the observation carries a real URL.
C8_UrlOnlyUnsetOrPlaceholderToReal ==
    [][\A w \in Workers :
          MergeStep(w) =>
              LET old == products[existing[w]._id]
                  new == products'[existing[w]._id]
              IN  new.url # old.url =>
                      \/ ~TruthyText(old.url)
                      \/ /\ StartsWith(old.url, Placeholder)
                         /\ TruthyText(_clean_optional_text(args[w].url))]_vars

C10_PostDedupesByNormalizedName ==
    /\ \A i \in Posts :
          hist[i].created =>
              \A d \in 1..(hist[i].id - 1) :
                  products[d].normalized_name # _normalize_name(hist[i].args.name)
    /\ \A i \in Upserts : \A j \in Posts :
          hist[i].args.name = hist[j].args.name => hist[i].id = hist[j].id

\* C11: every product document written by upsert_manual_entry or by the
\* product-only POST has normalized_name = _normalize_name(name).
C11_NormalizedNameIsProjection ==
    \A d \in DOMAIN products : products[d].normalized_name = _normalize_name(products[d].name)

\* the maximal runs of [a-z0-9] of a text, in order
RECURSIVE AlnumWords(_)
AlnumWords(s) ==
    IF s = <<>> THEN <<>>
    ELSE IF Head(s) \notin LowerSet \cup DigitSet THEN AlnumWords(Tail(s))
    ELSE LET stops == {i \in DOMAIN s : s[i] \notin LowerSet \cup DigitSet}
             n == IF stops = {} THEN Len(s) ELSE (CHOOSE i \in stops : \A j \in stops : i <= j) - 1
         IN  <<SubSeq(s, 1, n)>> \o AlnumWords(SubSeq(s, n + 1, Len(s)))

RECURSIVE JoinWords(_)
JoinWords(words) ==
    IF words = <<>> THEN <<>>
    ELSE IF Len(words) = 1 THEN words[1]
    ELSE words[1] \o <<" ">> \o JoinWords(Tail(words))

\* C17 as stated: _normalize_name(x) is x lowercased, with every character
\* outside [a-z0-9] and whitespace deleted, whitespace runs collapsed to one
\* space and the ends trimmed, so that "u-v" and "uv" normalize alike.
C17_PunctuationDeleted ==
    resp.op = "_normalize_name" => resp.out = _normalize_name_Deleting(resp.in.text)

\* C17: _normalize_name(x) is the runs of [a-z0-9] of the lowercased x joined
\* by single spaces: a character outside [a-z0-9] and whitespace separates
\* words like a space does, so "u-v" normalizes to "u v"; the empty text
\* yields the empty text.
C17_PunctuationSeparatesWords ==
    resp.op = "_normalize_name" => resp.out = JoinWords(AlnumWords(Lower(resp.in.text)))

C17_Witness ==
    /\ resp.op = "_normalize_name"
    /\ resp.in.text = <<"u", "-", "V">>
    /\ resp.out = <<"u", " ", "v">>

\* C18: for a text with a pack-count phrase for N and no multipack pattern,
\* _parse_size returns pack_count = N with the value and unit of the size in a
\* measure unit found in the same text, and value None and unit None when the
\* text has no such size.
C18_PackCountWithMeasure ==
    (resp.op = "_parse_size" /\ resp.in.kind = "pack")
        => resp.out = [value |-> resp.in.value, unit |-> resp.in.unit,
                       pack_count |-> resp.in.count]

\* C19: for every text "<value><unit>" whose unit is a listed spelling, in
\* either case, _parse_size returns the canonical unit of that spelling.
C19_CanonicalUnit ==
    (resp.op = "_parse_size" /\ resp.in.kind = "unit") => resp.out.unit = resp.in.unit

\* the step in which a body is taken up
BodyTaken == started' # started /\ resp'.op = "post"

\* the name is missing or shorter than two characters once trimmed
NameInvalid(data) == data.name = Absent \/ Len(Strip(StrOf(data.name, <<>>))) < 2

StoreGiven(data) == Strip(StrOf(data.store_id, <<>>)) # <<>>

PriceInvalid(data) == ~ToFloat(data.price).ok \/ ToFloat(data.price).value <= 0

ResultId(doc) == IntOf(doc._id)

Called(c) == \E i \in DOMAIN resp.calls : resp.calls[i] = c

Smaller(a, b) == IF a <= b THEN a ELSE b

\* the result holds `expected` documents of `ids`, each once, as _serialize
\* leaves them
ResultDrawnFrom(ids) ==
    /\ Len(resp.result) = Smaller(resp.q.limit, Cardinality(ids))
    /\ \A i \in DOMAIN resp.result :
          /\ ResultId(resp.result[i]) \in ids
          /\ resp.result[i] = _serialize(products[ResultId(resp.result[i])], resp.hidden)
    /\ \A i, j \in DOMAIN resp.result :
          ResultId(resp.result[i]) = ResultId(resp.result[j]) => i = j

\* the result is the most recently updated documents of `ids`, latest first
ResultLatestOf(ids) ==
    /\ ResultDrawnFrom(ids)
    /\ \A i, j \in DOMAIN resp.result :
          i < j => products[ResultId(resp.result[i])].updated_at
                      >= products[ResultId(resp.result[j])].updated_at
    /\ \A d \in ids, i \in DOMAIN resp.result :
          \/ \E j \in DOMAIN resp.result : ResultId(resp.result[j]) = d
          \/ products[ResultId(resp.result[i])].updated_at >= products[d].updated_at

\* whether the text query of the pending search raised, and what it matched
TextQueryRaised == TextIndexes(indexes) = <<>> \/ "text_find" \in resp.q.fails
TextQueryMatches == TextMatches(products, resp.q, indexes)

\* C13: in a search with a query the regex query is issued exactly when the
\* text query raised or returned nothing, and otherwise the text results are
\* what is returned; without a query neither the text nor the regex query is
\* issued and the result is the documents passing the category, tag and
\* store filters, most recently updated first.
C13_RegexOnlyAfterEmptyOrFailedText ==
    resp.op = "search" =>
        IF TruthyText(resp.q.query)
        THEN /\ Called("regex_find") <=> (TextQueryRaised \/ TextQueryMatches = {})
             /\ ~Called("filter_find")
             /\ (~TextQueryRaised /\ TextQueryMatches # {}) => ResultDrawnFrom(TextQueryMatches)
        ELSE /\ ~Called("text_find")
             /\ ~Called("regex_find")
             /\ "filter_find" \notin resp.q.fails
                   => ResultLatestOf({d \in DOMAIN products : ExtraFilters(products[d], resp.q)})

\* a text query that worked and matched nothing was followed by a regex query
\* that found something
C13_Witness ==
    /\ resp.op = "search"
    /\ TruthyText(resp.q.query)
    /\ ~TextQueryRaised
    /\ TextQueryMatches = {}
    /\ Called("regex_find")
    /\ resp.result # <<>>

\* C14: search never raises, whatever the query, category, tag and store_id
\* and whichever of the settings, text, regex and filter queries raise; it
\* returns the empty list when the last query it issued raised.
C14_SearchNeverRaises ==
    resp.op = "search" =>
        /\ ~resp.raised
        /\ resp.calls[Len(resp.calls)] \in resp.q.fails => resp.result = <<>>

\* every query of a search with a query raised, over a catalog that holds a match
C14_Witness ==
    /\ resp.op = "search"
    /\ resp.q.fails = SearchFailPoints
    /\ TruthyText(resp.q.query)
    /\ \E d \in DOMAIN products : RegexFilter(products[d], resp.q)
    /\ ~resp.raised
    /\ resp.result = <<>>

\* C15: every product returned by get_one, search and get_all has no
\* location_prices entry of a store that is hidden in store_settings, keeps
\* the entries of the other stores in order, and has no embedding, checksum
\* or aliases field.
C15_HiddenStoresNeverReturned ==
    (resp.op \in {"search", "get_one", "get_all"} /\ ~resp.raised) =>
        \A i \in DOMAIN resp.result :
            /\ DOMAIN resp.result[i] \cap {"embedding", "checksum", "aliases"} = {}
            /\ resp.result[i].location_prices
                  = SelectSeq(products[ResultId(resp.result[i])].location_prices,
                              LAMBDA lp : lp.location_id \notin store_settings)

\* an index call of the pending search raised
IndexCalls == {"index_information", "drop_index", "create_index"}
IndexCallRaised == \E c \in IndexCalls \cap resp.q.fails : Called(c)

\* what the regex query of the pending search returns
RegexResult ==
    Serialized(products,
               Limit(SortedByUpdatedDesc(products,
                         {d \in DOMAIN products : RegexFilter(products[d], resp.q)}),
                     resp.q.limit),
               resp.hidden)

\* C16 as stated: when index_information, drop_index or create_index raises
\* inside _ensure_text_index, search does not raise, the flag stays false and
\* the search returns the regex matches of its query.
C16_IndexFailureGivesRegexMatches ==
    (resp.op = "search" /\ IndexCallRaised /\ "regex_find" \notin resp.q.fails) =>
        /\ ~resp.raised
        /\ ~_text_index_ready
        /\ resp.result = RegexResult

\* C16: when index_information, drop_index or create_index raises inside
\* _ensure_text_index, search does not raise and the flag stays false; the
\* search returns the text results when a text index is still in place and
\* the text query answers with at least one result, and the regex matches of
\* its query otherwise.
C16_IndexFailureNotFatal ==
    (resp.op = "search" /\ IndexCallRaised) =>
        /\ ~resp.raised
        /\ ~_text_index_ready
        /\ IF ~TextQueryRaised /\ TextQueryMatches # {}
           THEN ResultDrawnFrom(TextQueryMatches)
           ELSE resp.result = IF "regex_find" \in resp.q.fails THEN <<>> ELSE RegexResult

\* create_index raised, the collection has no text index, and the search
\* returned regex matches
C16_Witness ==
    /\ resp.op = "search"
    /\ "create_index" \in resp.q.fails
    /\ Called("create_index")
    /\ TextIndexes(indexes) = <<>>
    /\ ~_text_index_ready
    /\ resp.result # <<>>
    /\ resp.result = RegexResult

\* the number of products whose category lists `cat`
ProductsListing(cat) ==
    Cardinality({d \in DOMAIN products :
                    \E i \in DOMAIN CategoryPieces(products[d]) :
                        CategoryPieces(products[d])[i] = cat})

\* C20: get_categories(limit) returns distinct trimmed non-empty category
\* names split on commas, those listed by the most products first, cut to
\* limit, and the empty list when the store fails.
C20_CategoriesByProductCount ==
    resp.op = "get_categories" =>
        IF "aggregate" \in resp.q.fails THEN resp.result = <<>>
        ELSE /\ Len(resp.result) = Smaller(resp.q.limit, Cardinality(GroupKeys(products)))
             /\ \A i \in DOMAIN resp.result : resp.result[i] \in GroupKeys(products)
             /\ \A i, j \in DOMAIN resp.result : resp.result[i] = resp.result[j] => i = j
             /\ \A i, j \in DOMAIN resp.result :
                   i < j => ProductsListing(resp.result[i]) >= ProductsListing(resp.result[j])
             /\ \A c \in GroupKeys(products), i \in DOMAIN resp.result :
                   \/ \E j \in DOMAIN resp.result : resp.result[j] = c
                   \/ ProductsListing(resp.result[i]) >= ProductsListing(c)

\* the time of the request that takes the step: the `now` of the handler
\* that writes, or the arrival of the PUT
WriteTime ==
    IF \E w \in Workers : pc[w] \in {"write", "post_write"}
    THEN (CHOOSE t \in {args[w].now : w \in {v \in Workers : pc[v] \in {"write", "post_write"}}} : TRUE)
    ELSE started'

\* C21: created_at of a product never changes, and every step that writes a
\* product document sets its updated_at to the time of the writing request,
\* which is not before the previous updated_at nor before created_at.
C21_UpdatedAtBumpedOnEveryWrite ==
    [][\A d \in DOMAIN products :
          /\ products'[d].created_at = products[d].created_at
          /\ products'[d] # products[d] =>
                /\ products'[d].updated_at = WriteTime
                /\ products'[d].updated_at >= products[d].updated_at
                /\ products'[d].updated_at >= products'[d].created_at]_vars

\* the store_data of the get_or_create call that took the step
CreatedStore == ("_id" :> resp'.id) @@ clean_data(resp'.store_data)

\* C22: after any sequence of get_or_create calls no two stores share a
\* place_id; the first call for a place_id inserts one store holding the
\* supplied non-None fields, and a later call for it inserts nothing and
\* returns the _id of that store.
C22_OneStorePerPlaceId ==
    [][/\ \A s1, s2 \in stores' : s1.place_id = s2.place_id => s1 = s2
       /\ (resp'.op = "get_or_create" /\ resp'.raised = "no") =>
             LET old == StoreAt(stores, resp'.store_data.place_id)
             IN  IF old = NoStore
                 THEN /\ stores' = stores \cup {CreatedStore}
                      /\ CreatedStore \notin stores
                      /\ \A st \in stores : st._id # resp'.id
                 ELSE /\ Cardinality(stores') = Cardinality(stores)
                      /\ resp'.id = old._id
       /\ (resp'.op = "get_or_create" /\ resp'.raised # "no") => stores' = stores]_vars

\* a second call for the place_id of the only store, under another store
\* name, returned that store's _id
C22_Witness ==
    /\ resp.op = "get_or_create"
    /\ resp.raised = "no"
    /\ started = 2
    /\ Cardinality(stores) = 1
    /\ \E st \in stores :
          /\ st._id = resp.id
          /\ st.place_id = resp.store_data.place_id
          /\ st.store # resp.store_data.store

\* C23: get_or_create for a place_id that already exists writes every
\* non-None field of store_data into the stored document, keeps the fields
\* not supplied, and returns the id of the existing store.
C23_ExistingStoreUpdated ==
    [][(/\ resp'.op = "get_or_create"
        /\ resp'.raised = "no"
        /\ StoreAt(stores, resp'.store_data.place_id) # NoStore) =>
            LET old == StoreAt(stores, resp'.store_data.place_id)
                new == StoreAt(stores', resp'.store_data.place_id)
                supplied == clean_data(resp'.store_data)
            IN  /\ resp'.id = old._id
                /\ new._id = old._id
                /\ \A k \in DOMAIN supplied :
                      new[k] = IF supplied[k] # Absent THEN supplied[k] ELSE old[k]]_vars

\* C24: after any sequence of upsert_price calls there is one price document
\* per (product_id, store_id); the first call for a pair inserts it, and a
\* later call returns the same _id and overwrites price, currency and
\* last_updated, leaving product_id, store_id and the other documents alone.
C24_OnePricePerPair ==
    [][/\ \A p1, p2 \in product_prices' :
             (p1.product_id = p2.product_id /\ p1.store_id = p2.store_id) => p1 = p2
       /\ (resp'.op = "upsert_price" /\ resp'.raised = "no") =>
             LET old == PriceAt(product_prices, resp'.product_id, resp'.store_id)
                 new == PriceAt(product_prices', resp'.product_id, resp'.store_id)
             IN  /\ new = [_id |-> resp'.id, product_id |-> resp'.product_id,
                           store_id |-> resp'.store_id, price |-> resp'.price,
                           currency |-> resp'.currency, last_updated |-> resp'.now]
                 /\ product_prices' \ {new} = product_prices \ {old}
                 /\ IF old = NoPrice
                    THEN \A pr \in product_prices : pr._id # resp'.id
                    ELSE resp'.id = old._id
       /\ (resp'.op = "upsert_price" /\ resp'.raised # "no") =>
             product_prices' = product_prices]_vars

\* a second call for the pair of the only price document changed its price
\* and currency under the same _id
C24_Witness ==
    /\ resp.op = "upsert_price"
    /\ resp.raised = "no"
    /\ started = 2
    /\ product_prices = {[_id |-> 1, product_id |-> resp.product_id,
                          store_id |-> resp.store_id, price |-> 200000,
                          currency |-> Usd, last_updated |-> 2]}
    /\ resp.id = 1

LegacyCalls == <<"StoreModel.get_or_create", "ProductModel.get_or_create_product",
                 "ProductPriceModel.upsert_price">>

\* C25: the legacy POST flow validates first and answers 400 with no model
\* call when the product name, the place_id or a numeric price is missing;
\* a body that passes runs get-or-create store, get-or-create product and
\* upsert price in that order, except that a store step refusing its input
\* (no store name: ValueError) answers 400 with the store step alone called.
C25_LegacyStepsInOrder ==
    resp.op = "legacy_post" =>
        IF LegacyError(resp.data) # Passed
        THEN resp.status = 400 /\ resp.calls = <<>>
        ELSE IF Falsy(resp.data.store_info.store)
        THEN resp.status = 400 /\ resp.calls = SubSeq(LegacyCalls, 1, 1)
        ELSE resp.status = 201 /\ resp.calls = LegacyCalls

\* the products a call of upsert_manual_entry with arguments a takes as its
\* own: same match key, or same normalized name and, when a brand is
\* supplied, a brand that is the supplied one, null or empty
KnownTo(a, doc) ==
    \/ doc.match_key = match_key(a)
    \/ /\ doc.normalized_name = _normalize_name(a.name)
       /\ \/ ~TruthyText(_clean_optional_text(a.brand))
          \/ doc.brand = _clean_optional_text(a.brand)
          \/ doc.brand = TextNone
          \/ doc.brand = <<>>

\* worker w performs the write of upsert_manual_entry in this step
UpsertWrite(w) == pc[w] = "write" /\ pc'[w] = "idle"

\* C26: upsert_manual_entry inserts one document and returns created=True
\* exactly when no product has its match key and none has its normalized
\* name with a brand that is the supplied one, null or empty (any brand when
\* none is supplied); otherwise it inserts nothing, changes the one matched
\* product alone and returns that product's id with created=False.
C26_CreateIffUnknown ==
    [][\A w \in Workers : UpsertWrite(w) =>
          LET known == {d \in DOMAIN products : KnownTo(args[w], products[d])}
              ret == hist'[Len(hist')]
          IN  IF known = {}
              THEN /\ ret.created
                   /\ Len(products') = Len(products) + 1
                   /\ SubSeq(products', 1, Len(products)) = products
                   /\ ret.id = Len(products')
              ELSE /\ ~ret.created
                   /\ Len(products') = Len(products)
                   /\ ret.id \in known
                   /\ products'[ret.id] # products[ret.id]
                   /\ \A d \in DOMAIN products : d # ret.id => products'[d] = products[d]]_vars

\* a call without a brand was merged by name into the product of brand X, and
\* a later call with brand Y for the same name created a second product
C26_Witness ==
    /\ Len(products) = 2
    /\ products[1].normalized_name = products[2].normalized_name
    /\ \E i, j \in Upserts :
          /\ i < j
          /\ ~hist[i].created /\ hist[i].id = 1
          /\ products[1].match_key # match_key(hist[i].args)
          /\ hist[j].created /\ hist[j].id = 2
          /\ TruthyText(hist[j].args.brand)
          /\ products[1].brand # hist[j].args.brand

\* a search or find_by_name took the step
EnsuringRead == resp' # resp /\ resp'.op \in {"search", "find_by_name"}

\* a search_text index over exactly the expected fields
CurrentIndex(idx) == idx.name = "search_text" /\ idx.fields = ExpectedFields

\* C27: the text-index flag never goes back to false; it becomes true only
\* in a call that found a search_text index over exactly the expected fields
\* or created it without a failure; while it is true no call issues
\* index_information, drop_index or create_index; and a call in which one of
\* these raised leaves it false.
C27_FlagOneWay ==
    [][/\ _text_index_ready => _text_index_ready'
       /\ (~_text_index_ready /\ _text_index_ready') =>
             /\ EnsuringRead
             /\ \E i \in DOMAIN indexes' : CurrentIndex(indexes'[i])
             /\ \/ \E i \in DOMAIN indexes : CurrentIndex(indexes[i])
                \/ /\ \E i \in DOMAIN resp'.calls : resp'.calls[i] = "create_index"
                   /\ "create_index" \notin resp'.q.fails
       /\ (_text_index_ready /\ EnsuringRead) =>
             /\ \A i \in DOMAIN resp'.calls : resp'.calls[i] \notin IndexCalls
             /\ indexes' = indexes
       /\ (EnsuringRead /\ \E i \in DOMAIN resp'.calls :
                               resp'.calls[i] \in IndexCalls \cap resp'.q.fails) =>
             ~_text_index_ready']_vars

\* with the flag set, a read whose index_information would have raised went
\* to the text query without any index call
C27_Witness ==
    /\ _text_index_ready
    /\ resp.op \in {"search", "find_by_name"}
    /\ TruthyText(resp.q.query)
    /\ "index_information" \in resp.q.fails
    /\ ~Called("index_information")
    /\ Called("text_find")

\* the entries written to product d since worker w read it, by other stores
WrittenSinceRead(w, d) ==
    {e \in Range(products[d].location_prices) :
        /\ e.location_id # args[w].store_id
        /\ ~InSeq(e, existing[w].location_prices)}

\* C28: a merge writes back the whole location_prices array it read with its
\* own observation put in, so that when two merges for different stores into
\* one product have both read before either writes, the later write drops
\* the observation the earlier one stored: the product is left with the
\* observation of one of the two stores, and with the mean of the array it
\* holds as estimated_price.
C28_LaterMergeReplacesArray ==
    [][\A w \in Workers : (MergeStep(w) /\ StorePath(args[w])) =>
          LET d == existing[w]._id
              written == products'[d].location_prices
          IN  /\ written = MergeLocationPrices(existing[w].location_prices,
                                               location_price(args[w]))
              /\ InSeq(location_price(args[w]), written)
              /\ \A e \in WrittenSinceRead(w, d) : ~InSeq(e, written)
              /\ products'[d].estimated_price = MeanPrice(written)]_vars

\* two merges for different stores into one product have returned, the
\* later one having read before the earlier one wrote; the product holds the
\* observation of the later one and not that of the earlier one
C28_Witness ==
    \E i, j \in Upserts :
        /\ i < j
        /\ ~hist[i].created /\ ~hist[j].created
        /\ hist[i].id = hist[j].id
        /\ hist[i].args.store_id # hist[j].args.store_id
        /\ hist[j].stale
        /\ InSeq(location_price(hist[j].args), products[hist[j].id].location_prices)
        /\ ~InSeq(location_price(hist[i].args), products[hist[i].id].location_prices)
        /\ \A e \in Range(products[hist[i].id].location_prices) :
              e.location_id # hist[i].args.store_id
        /\ products[hist[j].id].estimated_price
              = MeanPrice(products[hist[j].id].location_prices)

\* upsert_manual_entry run from entry to return on the catalog coll: the
\* catalog it leaves
upsert_manual_entry(coll, a) ==
    LET by_key == find_one(coll, {i \in DOMAIN coll : MatchKeyQuery(a, coll[i])})
        found == IF Found(by_key) THEN by_key
                 ELSE find_one(coll, {i \in DOMAIN coll : FallbackQuery(a, coll[i])})
    IN  IF Found(found) THEN update_one(coll, found._id, MergeUpdates(a, found))
        ELSE insert_one(coll, CreatePayload(a))

\* the product-only branch of ProductResource.post run from entry to return
post_product_only(coll, a) ==
    LET found == find_one(coll, {i \in DOMAIN coll : PostQuery(a, coll[i])})
    IN  IF Found(found) THEN update_one(coll, found._id, PostUpdates(a, found))
        ELSE insert_one(coll, PostDoc(a))

\* the catalog after the requests of `calls`, served in order
RECURSIVE Replay(_, _)
Replay(coll, calls) ==
    IF calls = <<>> THEN coll
    ELSE Replay(IF StorePath(Head(calls)) THEN upsert_manual_entry(coll, Head(calls))
                ELSE post_product_only(coll, Head(calls)),
                Tail(calls))

\* the requests served so far, and the same requests had store h observed
\* the price p
Served == [i \in DOMAIN hist |-> hist[i].args]
ServedWith(h, p) ==
    [i \in DOMAIN hist |->
        IF hist[i].args.store_id = h THEN [hist[i].args EXCEPT !.price = p]
        ELSE hist[i].args]

AltPrices == {100000, 200000}

\* C29: what get_one returns does not depend on the prices observed by a
\* hidden store: had a store that is hidden observed another price, every
\* product would be returned as it is now, estimated_price, store_id and
\* store_name included.
C29_HiddenPricesDoNotShow ==
    \A h \in store_settings, p \in AltPrices :
        LET twin == Replay(<<>>, ServedWith(h, p))
        IN  \A d \in DOMAIN products :
                get_one(products, store_settings, GetOneQuery(d, {})).result
                    = get_one(twin, store_settings, GetOneQuery(d, {})).result

\* the _ids of the products in the response
ResultIds == {ResultId(resp'.result[i]) : i \in DOMAIN resp'.result}

\* a search by store took the step, and none of its calls raised
SearchByStore ==
    /\ resp' # resp
    /\ resp'.op = "search"
    /\ resp'.q.fails = {}
    /\ TruthyText(resp'.q.store_id)

\* C30: the top-level store_id of a product is the store of the observation
\* that created it and no later write changes it; a search by store returns
\* only products with that top-level store_id, and all of them when it has
\* no other condition: a product created by store A and merged with an
\* observation of store B is returned for A and not for B.
C30_StoreFilterIsCreatingStore ==
    [][/\ \A d \in DOMAIN products : products'[d].store_id = products[d].store_id
       /\ \A w \in Workers : (pc[w] = "write" /\ ~Found(existing[w])) =>
             products'[Len(products')].store_id = args[w].store_id
       /\ SearchByStore =>
             /\ \A d \in ResultIds : products[d].store_id = resp'.q.store_id
             /\ (~TruthyText(resp'.q.query) /\ ~TruthyText(resp'.q.category)
                    /\ ~TruthyText(resp'.q.tag) /\ resp'.q.limit >= Len(products)) =>
                   ResultIds = {d \in DOMAIN products :
                                   products[d].store_id = resp'.q.store_id}]_vars

\* a search for store b did not return the product that store a created,
\* although the product holds a price of store b
C30_Witness ==
    /\ resp.op = "search"
    /\ resp.q.fails = {}
    /\ resp.q.store_id = StoreB
    /\ ~TruthyText(resp.q.query)
    /\ resp.result = <<>>
    /\ \E d \in DOMAIN products :
          /\ products[d].store_id = StoreA
          /\ \E i \in DOMAIN products[d].location_prices :
                products[d].location_prices[i].location_id = StoreB

=============================================================================
